---- MODULE Spec2Model ----
(***************************************************************************)
(* Badminton tournament tracker (showdown): the browser client's           *)
(* tournament engine (src/app.js), the server's state store (the db.js     *)
(* part of src/app.js, src/src/db.ts) and the broadcast of the stored      *)
(* state (src/server.js).                                                  *)
(*                                                                         *)
(* A JavaScript value that may be null is modelled as a sequence of length *)
(* at most one: NULL is <<>>, a present value v is <<v>>.                  *)
(***************************************************************************)
EXTENDS Integers, Sequences, FiniteSets, TLC

VARIABLES
    teams,              \* state.teams: pool -> the pool's three teams
    matches,            \* state.matches: the group matches
    knockoutMatches,    \* state.knockoutMatches: semi1, semi2, final
    scheduleGenerated,  \* state.scheduleGenerated
    currentEditMatch,   \* the match object the score modal edits, or NULL
    currentEditType,    \* "group", "knockout" or NULL
    saving,             \* saveScore is suspended at its await
    rendered,           \* the schedule and bracket views have been rendered
    store,              \* the server's stored TournamentState
    inbox,              \* tournament:updated broadcasts on their way to the client
    saves,              \* number of score entries made on the current schedule
    edited,             \* the matches of the current schedule a score entry was made for
    formsDisabled,      \* the team forms' inputs were rendered disabled
    timers,             \* debouncedSave's timers that are armed
    pendingSave,        \* pendingSave
    toast,              \* the last toast shown, or NULL
    peer,               \* a second connected client, or NULL
    serverDefault,      \* the server's defaultState object
    reply,              \* the server's last response, or NULL
    edits,              \* the changes made in the team forms so far
    request,            \* the last request sent to a route directly, or NULL
    game,               \* renderGameRow: the game that is rendered
    row,                \* renderGameRow: what the row shows, or NULL
    standingsTable,     \* renderStandings: pool -> the rows shown, or NULL
    calls,              \* the requests the asynchronous server has taken, in order
    writers             \* who caused each broadcast queued for the second client

vars == <<teams, matches, knockoutMatches, scheduleGenerated, currentEditMatch,
          currentEditType, saving, rendered, store, inbox, saves, edited,
          formsDisabled, timers, pendingSave, toast, peer, serverDefault, reply, edits,
          request, game, row, standingsTable, calls, writers>>

\* The team forms and the debounced save of the client, and the second client.
setupVars == <<formsDisabled, timers, pendingSave, peer, edits>>

engineVars == <<teams, matches, knockoutMatches, scheduleGenerated, currentEditMatch,
                currentEditType, saving, rendered, store, inbox, saves, edited,
                setupVars, toast, serverDefault, reply, request, calls, writers>>

----------------------------------------------------------------------------
\* Nullable values

NULL == <<>>

Some(v) == <<v>>

Val(o) == o[1]

----------------------------------------------------------------------------
\* The game-winner rule

\* app.js:644: a side that reaches 30 wins; the score inputs allow 0..30.
ScoreCap == 30

\* app.js:646: 21 points win a game.
WinScore == 21

\* app.js:646: from 20 points on the other side a lead is needed.
DeuceScore == 20

\* app.js:648: the lead needed at deuce.
DeuceLead == 2

\* A plausible slip of isGameWinner: the deuce branch forgets the 2-point lead.
isGameWinnerNoLead(score1, score2) ==
    IF score1 <= score2 THEN FALSE
    ELSE IF score1 = ScoreCap THEN TRUE
    ELSE IF score1 >= WinScore /\ score2 < DeuceScore THEN TRUE
    ELSE IF score1 >= WinScore /\ score2 >= DeuceScore THEN TRUE
    ELSE FALSE

\* A plausible slip of isGameWinner: the comparison with the other side is lost,
\* so a side at the cap wins whatever the other side has.
isGameWinnerCapFirst(score1, score2) ==
    IF score1 = ScoreCap THEN TRUE
    ELSE IF score1 <= score2 THEN FALSE
    ELSE IF score1 >= WinScore /\ score2 < DeuceScore THEN TRUE
    ELSE IF score1 >= WinScore /\ score2 >= DeuceScore /\ score1 - score2 >= DeuceLead THEN TRUE
    ELSE FALSE

\* isGameWinner(score1, score2): does score1 beat score2.
isGameWinner(score1, score2) ==
    IF score1 <= score2 THEN FALSE
    ELSE IF score1 = ScoreCap THEN TRUE
    ELSE IF score1 >= WinScore /\ score2 < DeuceScore THEN TRUE
    ELSE IF score1 >= WinScore /\ score2 >= DeuceScore /\ score1 - score2 >= DeuceLead THEN TRUE
    ELSE FALSE

----------------------------------------------------------------------------
\* The tournament's data

Pools == <<"A", "B">>

KnockoutKeys == <<"semi1", "semi2", "final">>

\* The roster (players.csv): eighteen distinct names, three per team.
Roster(pool, t) == <<pool \o ToString(t) \o "x", pool \o ToString(t) \o "y", pool \o ToString(t) \o "z">>

\* state.teams as declared: six named teams, every player slot ''.
defaultTeams ==
    [A |-> <<[id |-> "A1", name |-> "Team 1", players |-> <<"", "", "">>],
             [id |-> "A2", name |-> "Team 2", players |-> <<"", "", "">>],
             [id |-> "A3", name |-> "Team 3", players |-> <<"", "", "">>]>>,
     B |-> <<[id |-> "B1", name |-> "Team 4", players |-> <<"", "", "">>],
             [id |-> "B2", name |-> "Team 5", players |-> <<"", "", "">>],
             [id |-> "B3", name |-> "Team 6", players |-> <<"", "", "">>]>>]

\* The teams once every player dropdown holds a different player of the roster.
filledTeams ==
    [pool \in {"A", "B"} |->
        [t \in 1..3 |-> [defaultTeams[pool][t] EXCEPT !.players = Roster(pool, t)]]]

\* The filled teams with one player chosen twice (A1's first player also in B3).
duplicateTeams ==
    [filledTeams EXCEPT !.B[3].players[3] = filledTeams.A[1].players[1]]

\* The filled teams with one player slot still blank.
blankTeams ==
    [filledTeams EXCEPT !.A[2].players[2] = ""]

\* The server's defaultState, and the client's state as declared.
defaultState ==
    [teams |-> defaultTeams,
     matches |-> <<>>,
     knockoutMatches |-> [semi1 |-> NULL, semi2 |-> NULL, final |-> NULL],
     scheduleGenerated |-> FALSE]

\* The player-index pairings of a match's three games: (0,1), (0,2), (1,2).
pairings == <<<<1, 2>>, <<1, 3>>, <<2, 3>>>>

\* The pool's matchups: (team0,team1), (team0,team2), (team1,team2).
matchups == <<<<1, 2>>, <<1, 3>>, <<2, 3>>>>

\* The games of a match between team1 and team2, unscored.
newGames(team1, team2) ==
    [g \in 1..Len(pairings) |->
        [id |-> g - 1,
         team1Players |-> <<team1.players[pairings[g][1]], team1.players[pairings[g][2]]>>,
         team2Players |-> <<team2.players[pairings[g][1]], team2.players[pairings[g][2]]>>,
         team1Score |-> NULL,
         team2Score |-> NULL,
         winner |-> NULL]]

\* A plausible slip of generatePoolMatches: the second and third matchup are
\* pushed the other way round.
generatePoolMatchesReordered(tm, pool) ==
    [k \in 1..Len(matchups) |->
        LET other == <<1, 3, 2>>
            team1 == tm[pool][matchups[other[k]][1]]
            team2 == tm[pool][matchups[other[k]][2]]
        IN  [id |-> pool \o "-" \o team1.id \o "-" \o team2.id,
             pool |-> pool,
             team1Id |-> team1.id,
             team2Id |-> team2.id,
             team1Name |-> team1.name,
             team2Name |-> team2.name,
             games |-> newGames(team1, team2),
             team1GamesWon |-> 0,
             team2GamesWon |-> 0,
             winner |-> NULL,
             completed |-> FALSE]]

\* generatePoolMatches(pool): the three matches pushed for the pool.
generatePoolMatches(tm, pool) ==
    [k \in 1..Len(matchups) |->
        LET team1 == tm[pool][matchups[k][1]]
            team2 == tm[pool][matchups[k][2]]
        IN  [id |-> pool \o "-" \o team1.id \o "-" \o team2.id,
             pool |-> pool,
             team1Id |-> team1.id,
             team2Id |-> team2.id,
             team1Name |-> team1.name,
             team2Name |-> team2.name,
             games |-> newGames(team1, team2),
             team1GamesWon |-> 0,
             team2GamesWon |-> 0,
             winner |-> NULL,
             completed |-> FALSE]]

createKnockoutMatch(id, seed1, seed2) ==
    [id |-> id,
     seed1 |-> seed1,
     seed2 |-> seed2,
     team1 |-> NULL,
     team2 |-> NULL,
     games |-> <<>>,
     team1GamesWon |-> 0,
     team2GamesWon |-> 0,
     winner |-> NULL,
     completed |-> FALSE]

\* initializeKnockoutGames(match): the match with its three games created.
initializeKnockoutGames(match) ==
    [match EXCEPT !.games = newGames(Val(match.team1), Val(match.team2))]

\* String.prototype.trim on the names the model uses: a name of spaces only
\* trims to '', every other name has no space at either end.
trim(str) == IF str \in {"", " ", "  "} THEN "" ELSE str

\* The 18 player slots, pool A first (allTeams.flatMap(t => t.players)).
allPlayers(tm) ==
    [k \in 1..18 |->
        tm[Pools[((k - 1) \div 9) + 1]][(((k - 1) % 9) \div 3) + 1].players[((k - 1) % 3) + 1]]

\* A validation that does not look for a player in two slots.
validSetupNoDuplicates(tm) ==
    \A pool \in {"A", "B"} : \A t \in 1..3 :
        /\ trim(tm[pool][t].name) # ""
        /\ \A p \in 1..3 : trim(tm[pool][t].players[p]) # ""

\* generateSchedule's validation: every team named, every slot filled, no
\* player in two slots.
validSetup(tm) ==
    /\ \A pool \in {"A", "B"} : \A t \in 1..3 :
          /\ trim(tm[pool][t].name) # ""
          /\ \A p \in 1..3 : trim(tm[pool][t].players[p]) # ""
    /\ Cardinality({allPlayers(tm)[k] : k \in 1..18}) = Len(allPlayers(tm))

----------------------------------------------------------------------------
\* Score entry: the computation of saveScore

\* parseInt on the value of a score input: a decimal numeral of 0..30.
parseInt(str) == CHOOSE n \in 0..ScoreCap : ToString(n) = str

\* score1Input.value !== '' ? parseInt(score1Input.value) : null
readScore(value) == IF value # "" THEN Some(parseInt(value)) ELSE NULL

\* One pass of saveScore's loop body over a game: the scores are stored; the
\* winner is assigned only when both scores are present.
scoreGame(g, score1, score2) ==
    [g EXCEPT !.team1Score = score1,
              !.team2Score = score2,
              !.winner = IF score1 # NULL /\ score2 # NULL
                         THEN IF isGameWinner(Val(score1), Val(score2)) THEN Some("team1")
                              ELSE IF isGameWinner(Val(score2), Val(score1)) THEN Some("team2")
                              ELSE NULL
                         ELSE @]

\* The loop's effect on the counters for one game: <<team1Wins, team2Wins,
\* allGamesScored>> after the game, from their values before it.
countGame(acc, score1, score2) ==
    IF score1 # NULL /\ score2 # NULL
    THEN IF isGameWinner(Val(score1), Val(score2)) THEN <<acc[1] + 1, acc[2], acc[3]>>
         ELSE IF isGameWinner(Val(score2), Val(score1)) THEN <<acc[1], acc[2] + 1, acc[3]>>
         ELSE <<acc[1], acc[2], FALSE>>
    ELSE <<acc[1], acc[2], FALSE>>

\* currentEditMatch.games.forEach(...): the counters after the first n games.
RECURSIVE countGames(_, _, _)
countGames(games, inputs, n) ==
    IF n = 0 THEN <<0, 0, TRUE>>
    ELSE countGame(countGames(games, inputs, n - 1),
                   readScore(inputs[n][1]), readScore(inputs[n][2]))

\* A plausible slip of scoreMatch: completed as soon as some side has won
\* two games, whatever the third game holds.
scoreMatchBestOfThree(match, type, inputs) ==
    LET acc == countGames(match.games, inputs, Len(match.games))
        id1 == IF type = "group" THEN match.team1Id ELSE Val(match.team1).id
        id2 == IF type = "group" THEN match.team2Id ELSE Val(match.team2).id
        done == acc[3] \/ acc[1] >= 2 \/ acc[2] >= 2
    IN  [match EXCEPT
            !.games = [g \in 1..Len(match.games) |->
                          scoreGame(match.games[g], readScore(inputs[g][1]),
                                    readScore(inputs[g][2]))],
            !.team1GamesWon = acc[1],
            !.team2GamesWon = acc[2],
            !.completed = done,
            !.winner = IF done /\ acc[1] > acc[2] THEN Some(id1)
                       ELSE IF done /\ acc[2] > acc[1] THEN Some(id2)
                       ELSE @]

\* A plausible slip of scoreMatch: the sides are swapped when the winner is
\* assigned.
scoreMatchSwapped(match, type, inputs) ==
    LET acc == countGames(match.games, inputs, Len(match.games))
        id1 == IF type = "group" THEN match.team1Id ELSE Val(match.team1).id
        id2 == IF type = "group" THEN match.team2Id ELSE Val(match.team2).id
    IN  [match EXCEPT
            !.games = [g \in 1..Len(match.games) |->
                          scoreGame(match.games[g], readScore(inputs[g][1]),
                                    readScore(inputs[g][2]))],
            !.team1GamesWon = acc[1],
            !.team2GamesWon = acc[2],
            !.completed = acc[3],
            !.winner = IF acc[3] /\ acc[1] > acc[2] THEN Some(id2)
                       ELSE IF acc[3] /\ acc[2] > acc[1] THEN Some(id1)
                       ELSE @]

\* saveScore up to its try block: the edited match object after the games,
\* the games-won counts, completed and winner have been written. The winner
\* is assigned only when the match is completed and one side has more games.
scoreMatch(match, type, inputs) ==
    LET acc == countGames(match.games, inputs, Len(match.games))
        id1 == IF type = "group" THEN match.team1Id ELSE Val(match.team1).id
        id2 == IF type = "group" THEN match.team2Id ELSE Val(match.team2).id
    IN  [match EXCEPT
            !.games = [g \in 1..Len(match.games) |->
                          scoreGame(match.games[g], readScore(inputs[g][1]),
                                    readScore(inputs[g][2]))],
            !.team1GamesWon = acc[1],
            !.team2GamesWon = acc[2],
            !.completed = acc[3],
            !.winner = IF acc[3] /\ acc[1] > acc[2] THEN Some(id1)
                       ELSE IF acc[3] /\ acc[2] > acc[1] THEN Some(id2)
                       ELSE @]

----------------------------------------------------------------------------
\* Standings

\* teams.map(team => ({id, name, played: 0, ...})): one zeroed row per team.
emptyStandings(tm, pool) ==
    [t \in 1..Len(tm[pool]) |->
        [id |-> tm[pool][t].id,
         name |-> tm[pool][t].name,
         played |-> 0,
         matchesWon |-> 0,
         matchesLost |-> 0,
         gamesWon |-> 0,
         gamesLost |-> 0,
         points |-> 0]]

\* standings.find(s => s.id === id): the index of the first row of that id, 0
\* when there is none.
findStanding(standings, id) ==
    IF \E i \in 1..Len(standings) : standings[i].id = id
    THEN CHOOSE i \in 1..Len(standings) :
            /\ standings[i].id = id
            /\ \A j \in 1..(i - 1) : standings[j].id # id
    ELSE 0

\* The points of a won match and of a drawn match (app.js:942, app.js:950).
WinPoints == 2

DrawPoints == 1

\* A plausible slip of creditMatch: a completed match without a winner gives
\* no points.
creditMatchNoDraw(standings, match) ==
    LET i1 == findStanding(standings, match.team1Id)
        i2 == findStanding(standings, match.team2Id)
    IN  IF ~match.completed \/ i1 = 0 \/ i2 = 0 THEN standings
        ELSE LET s1 == [standings EXCEPT
                           ![i1].played = @ + 1,
                           ![i1].gamesWon = @ + match.team1GamesWon,
                           ![i1].gamesLost = @ + match.team2GamesWon]
                 s2 == [s1 EXCEPT
                           ![i2].played = @ + 1,
                           ![i2].gamesWon = @ + match.team2GamesWon,
                           ![i2].gamesLost = @ + match.team1GamesWon]
             IN  IF match.winner = Some(match.team1Id)
                 THEN [s2 EXCEPT ![i1].matchesWon = @ + 1, ![i1].points = @ + WinPoints,
                                 ![i2].matchesLost = @ + 1]
                 ELSE IF match.winner = Some(match.team2Id)
                 THEN [s2 EXCEPT ![i2].matchesWon = @ + 1, ![i2].points = @ + WinPoints,
                                 ![i1].matchesLost = @ + 1]
                 ELSE s2

\* The body of poolMatches.forEach: the rows after one match of the pool. The
\* statements are applied in the code's order, first to team1's row, then to
\* team2's.
creditMatch(standings, match) ==
    LET i1 == findStanding(standings, match.team1Id)
        i2 == findStanding(standings, match.team2Id)
    IN  IF ~match.completed \/ i1 = 0 \/ i2 = 0 THEN standings
        ELSE LET s1 == [standings EXCEPT
                           ![i1].played = @ + 1,
                           ![i1].gamesWon = @ + match.team1GamesWon,
                           ![i1].gamesLost = @ + match.team2GamesWon]
                 s2 == [s1 EXCEPT
                           ![i2].played = @ + 1,
                           ![i2].gamesWon = @ + match.team2GamesWon,
                           ![i2].gamesLost = @ + match.team1GamesWon]
             IN  IF match.winner = Some(match.team1Id)
                 THEN [s2 EXCEPT ![i1].matchesWon = @ + 1, ![i1].points = @ + WinPoints,
                                 ![i2].matchesLost = @ + 1]
                 ELSE IF match.winner = Some(match.team2Id)
                 THEN [s2 EXCEPT ![i2].matchesWon = @ + 1, ![i2].points = @ + WinPoints,
                                 ![i1].matchesLost = @ + 1]
                 ELSE [s2 EXCEPT ![i1].points = @ + DrawPoints, ![i2].points = @ + DrawPoints]

\* state.matches.filter(m => m.pool === pool).forEach(...): the rows after
\* the first n matches of state.matches.
RECURSIVE tally(_, _, _, _)
tally(tm, ms, pool, n) ==
    IF n = 0 THEN emptyStandings(tm, pool)
    ELSE IF ms[n].pool = pool THEN creditMatch(tally(tm, ms, pool, n - 1), ms[n])
    ELSE tally(tm, ms, pool, n - 1)

\* A plausible slip of compareStandings: the game difference is compared the
\* wrong way round.
compareStandingsDiffAscending(a, b) ==
    IF b.points # a.points THEN b.points - a.points
    ELSE (a.gamesWon - a.gamesLost) - (b.gamesWon - b.gamesLost)

\* The comparator of standings.sort: negative when a goes before b.
compareStandings(a, b) ==
    IF b.points # a.points THEN b.points - a.points
    ELSE (b.gamesWon - b.gamesLost) - (a.gamesWon - a.gamesLost)

\* Array.prototype.sort is stable: a row goes behind every row already placed
\* that does not compare greater than it.
RECURSIVE insertStanding(_, _)
insertStanding(sorted, x) ==
    IF sorted = <<>> THEN <<x>>
    ELSE IF compareStandings(sorted[Len(sorted)], x) > 0
         THEN Append(insertStanding(SubSeq(sorted, 1, Len(sorted) - 1), x), sorted[Len(sorted)])
         ELSE Append(sorted, x)

RECURSIVE sortStandings(_, _)
sortStandings(standings, n) ==
    IF n = 0 THEN <<>>
    ELSE insertStanding(sortStandings(standings, n - 1), standings[n])

\* calculateStandings(pool) on the teams tm and the group matches ms.
calculateStandings(tm, ms, pool) ==
    LET standings == tally(tm, ms, pool, Len(ms))
    IN  sortStandings(standings, Len(standings))

----------------------------------------------------------------------------
\* Knockout stage

\* poolData.find(t => t.id === teamId), NULL when there is none.
findTeam(tm, pool, teamId) ==
    IF \E t \in 1..Len(tm[pool]) : tm[pool][t].id = teamId
    THEN Some(tm[pool][CHOOSE t \in 1..Len(tm[pool]) :
                           /\ tm[pool][t].id = teamId
                           /\ \A u \in 1..(t - 1) : tm[pool][u].id # teamId])
    ELSE NULL

\* getTeamData(pool, position): the team at that position of the pool's
\* standings, NULL when the standings have no such position.
getTeamData(tm, standings, pool, position) ==
    IF position <= Len(standings)
    THEN findTeam(tm, pool, standings[position].id)
    ELSE NULL

\* A plausible slip of updateKnockoutTeams: semi2 gets the seeds of semi1.
updateKnockoutTeamsSameSeeds(tm, ms, ko, generated) ==
    IF ~generated THEN ko
    ELSE LET standingsA == calculateStandings(tm, ms, "A")
             standingsB == calculateStandings(tm, ms, "B")
             a1 == getTeamData(tm, standingsA, "A", 1)
             b2 == getTeamData(tm, standingsB, "B", 2)
             k1 == IF ko.semi1 # NULL
                   THEN [ko EXCEPT !.semi1 = Some([Val(@) EXCEPT !.team1 = a1, !.team2 = b2])]
                   ELSE ko
         IN  IF k1.semi2 # NULL
             THEN [k1 EXCEPT !.semi2 = Some([Val(@) EXCEPT !.team1 = a1, !.team2 = b2])]
             ELSE k1

\* updateKnockoutTeams(): the bracket with both semifinals' team slots set
\* from the standings.
updateKnockoutTeams(tm, ms, ko, generated) ==
    IF ~generated THEN ko
    ELSE LET standingsA == calculateStandings(tm, ms, "A")
             standingsB == calculateStandings(tm, ms, "B")
             a1 == getTeamData(tm, standingsA, "A", 1)
             b2 == getTeamData(tm, standingsB, "B", 2)
             b1 == getTeamData(tm, standingsB, "B", 1)
             a2 == getTeamData(tm, standingsA, "A", 2)
             k1 == IF ko.semi1 # NULL
                   THEN [ko EXCEPT !.semi1 = Some([Val(@) EXCEPT !.team1 = a1, !.team2 = b2])]
                   ELSE ko
         IN  IF k1.semi2 # NULL
             THEN [k1 EXCEPT !.semi2 = Some([Val(@) EXCEPT !.team1 = b1, !.team2 = a2])]
             ELSE k1

\* semi.winner === semi.team1.id ? semi.team1 : semi.team2
winnerTeam(semi) ==
    IF semi.winner = Some(Val(semi.team1).id) THEN semi.team1 ELSE semi.team2

\* A plausible slip of updateKnockoutProgression: the final's games are
\* created again whenever both of its sides are there.
updateKnockoutProgressionRegenerating(ko) ==
    IF ko.final = NULL THEN ko
    ELSE LET semi1 == ko.semi1
             semi2 == ko.semi2
             f0 == Val(ko.final)
             f1 == IF semi1 # NULL /\ Val(semi1).completed /\ Val(semi1).winner # NULL
                   THEN [f0 EXCEPT !.team1 = winnerTeam(Val(semi1))]
                   ELSE f0
             f2 == IF semi2 # NULL /\ Val(semi2).completed /\ Val(semi2).winner # NULL
                   THEN [f1 EXCEPT !.team2 = winnerTeam(Val(semi2))]
                   ELSE f1
             f3 == IF f2.team1 # NULL /\ f2.team2 # NULL
                   THEN initializeKnockoutGames(f2)
                   ELSE f2
         IN  [ko EXCEPT !.final = Some(f3)]

\* A plausible slip of updateKnockoutProgression: the final's sides are taken
\* from the semifinals whether or not they are completed.
updateKnockoutProgressionEager(ko) ==
    IF ko.final = NULL THEN ko
    ELSE LET semi1 == ko.semi1
             semi2 == ko.semi2
             f0 == Val(ko.final)
             f1 == IF semi1 # NULL
                   THEN [f0 EXCEPT !.team1 = winnerTeam(Val(semi1))]
                   ELSE f0
             f2 == IF semi2 # NULL
                   THEN [f1 EXCEPT !.team2 = winnerTeam(Val(semi2))]
                   ELSE f1
             f3 == IF f2.team1 # NULL /\ f2.team2 # NULL /\ Len(f2.games) = 0
                   THEN initializeKnockoutGames(f2)
                   ELSE f2
         IN  [ko EXCEPT !.final = Some(f3)]

\* updateKnockoutProgression(): the bracket with the final's sides taken
\* from the completed semifinals and its games created when both sides are
\* there and it has none. (Without a final the TypeScript build returns.)
updateKnockoutProgression(ko) ==
    IF ko.final = NULL THEN ko
    ELSE LET semi1 == ko.semi1
             semi2 == ko.semi2
             f0 == Val(ko.final)
             f1 == IF semi1 # NULL /\ Val(semi1).completed /\ Val(semi1).winner # NULL
                   THEN [f0 EXCEPT !.team1 = winnerTeam(Val(semi1))]
                   ELSE f0
             f2 == IF semi2 # NULL /\ Val(semi2).completed /\ Val(semi2).winner # NULL
                   THEN [f1 EXCEPT !.team2 = winnerTeam(Val(semi2))]
                   ELSE f1
             f3 == IF f2.team1 # NULL /\ f2.team2 # NULL /\ Len(f2.games) = 0
                   THEN initializeKnockoutGames(f2)
                   ELSE f2
         IN  [ko EXCEPT !.final = Some(f3)]

----------------------------------------------------------------------------
\* The client's state before anything is set up, with an idle modal, an empty
\* store and nothing rendered.

\* The team forms as loadPlayers renders them on the declared state, no
\* timer armed, no toast shown, no second client, the server just started.
idleSetup ==
    /\ formsDisabled = FALSE
    /\ timers = [save |-> FALSE, clear |-> FALSE]
    /\ pendingSave = FALSE
    /\ toast = NULL
    /\ peer = NULL
    /\ serverDefault = defaultState
    /\ reply = NULL
    /\ edits = 0
    /\ request = NULL
    /\ calls = <<>>
    /\ writers = <<>>

idleModal ==
    /\ idleSetup
    /\ currentEditMatch = NULL
    /\ currentEditType = NULL
    /\ saving = FALSE
    /\ rendered = FALSE
    /\ saves = 0
    /\ edited = {}

idleEngine ==
    /\ teams = defaultTeams
    /\ matches = <<>>
    /\ knockoutMatches = [semi1 |-> NULL, semi2 |-> NULL, final |-> NULL]
    /\ scheduleGenerated = FALSE
    /\ idleModal
    /\ store = NULL
    /\ inbox = <<>>

----------------------------------------------------------------------------
\* renderGameRow on every pair of scores

\* Every value a game's score can hold: unset, or 0..30.
ScoreValues == {NULL} \cup {Some(n) : n \in 0..ScoreCap}

InitWinner ==
    /\ idleEngine
    /\ \E s1 \in ScoreValues, s2 \in ScoreValues :
          game = [newGames(filledTeams.A[1], filledTeams.A[2])[1]
                      EXCEPT !.team1Score = s1, !.team2Score = s2]
    /\ row = NULL
    /\ standingsTable = NULL

\* renderGameRow(game): the row marks the side that isGameWinner names.
renderGameRow ==
    /\ LET hasScore == game.team1Score # NULL /\ game.team2Score # NULL
       IN  row' = Some([hasScore |-> hasScore,
                        team1Won |-> IF hasScore
                                     THEN isGameWinner(Val(game.team1Score), Val(game.team2Score))
                                     ELSE FALSE,
                        team2Won |-> IF hasScore
                                     THEN isGameWinner(Val(game.team2Score), Val(game.team1Score))
                                     ELSE FALSE])
    /\ UNCHANGED <<engineVars, game, standingsTable>>

NextWinner == renderGameRow

SpecWinner == InitWinner /\ [][NextWinner]_vars

\* C1: for every pair (s1,s2) of 0..30, isGameWinner(s1,s2) is true exactly
\* when s1 > s2 and (s1 = 30, or s1 >= 21 and s2 < 20, or s1 >= 21 and
\* s2 >= 20 and s1 - s2 >= 2); so (30,s2) wins for every s2 < 30, (s1,30)
\* never wins for s1 < 30, and (21,19) wins, (21,20) does not, (22,20) wins,
\* (20,20) does not.
C1_WinnerRule ==
    (row # NULL /\ Val(row).hasScore) =>
        LET s1 == Val(game.team1Score)
            s2 == Val(game.team2Score)
            beats(a, b) == /\ a > b
                           /\ \/ a = 30
                              \/ a >= 21 /\ b < 20
                              \/ a >= 21 /\ b >= 20 /\ a - b >= 2
        IN  /\ Val(row).team1Won = beats(s1, s2)
            /\ Val(row).team2Won = beats(s2, s1)
            /\ (s1 = 30 /\ s2 < 30) => Val(row).team1Won
            /\ (s1 < 30 /\ s2 = 30) => ~Val(row).team1Won
            /\ (s1 = 21 /\ s2 = 19) => Val(row).team1Won
            /\ (s1 = 21 /\ s2 = 20) => ~Val(row).team1Won
            /\ (s1 = 22 /\ s2 = 20) => Val(row).team1Won
            /\ (s1 = 20 /\ s2 = 20) => ~Val(row).team1Won

\* C1's case: the deuce score 21-20 has been evaluated.
C1_Witness ==
    /\ row # NULL
    /\ game.team1Score = Some(21)
    /\ game.team2Score = Some(20)
    /\ ~Val(row).team1Won

\* C2: for every pair (s1,s2) of 0..30, isGameWinner(s1,s2) and
\* isGameWinner(s2,s1) are never both true.
C2_AtMostOneWinner ==
    row # NULL => ~(Val(row).team1Won /\ Val(row).team2Won)

\* C2's case: both sides at the cap have been evaluated, and neither wins.
C2_Witness ==
    /\ row # NULL
    /\ game.team1Score = Some(30)
    /\ game.team2Score = Some(30)
    /\ ~Val(row).team1Won
    /\ ~Val(row).team2Won

----------------------------------------------------------------------------
\* renderStandings on group matches in every combination of results

\* The six group matches and the bracket that generateSchedule builds.
generatedMatches(tm) == generatePoolMatches(tm, "A") \o generatePoolMatches(tm, "B")

\* A plausible slip of generatedBracket: semi2 is given semi1's seeds.
generatedBracketSameSeeds ==
    [semi1 |-> Some(createKnockoutMatch("semi1", "A1", "B2")),
     semi2 |-> Some(createKnockoutMatch("semi2", "A1", "B2")),
     final |-> Some(createKnockoutMatch("final", "W1", "W2"))]

generatedBracket ==
    [semi1 |-> Some(createKnockoutMatch("semi1", "A1", "B2")),
     semi2 |-> Some(createKnockoutMatch("semi2", "B1", "A2")),
     final |-> Some(createKnockoutMatch("final", "W1", "W2"))]

\* The results a stored group match can show: not played; being played with
\* an earlier winner still recorded; won 2-1 or 3-0 by team1; won 3-0 by
\* team2; completed without a winner. (No score entry of this client leaves
\* the last one, as three decided games never split evenly; the store takes
\* it from any PUT /api/match/:id, whose body is merged as it comes.)
Results == {"open", "partial", "won21", "won30", "lost03", "drawn"}

withResult(m, r) ==
    CASE r = "open"    -> m
      [] r = "partial" -> [m EXCEPT !.team1GamesWon = 2, !.winner = Some(m.team1Id)]
      [] r = "won21"   -> [m EXCEPT !.team1GamesWon = 2, !.team2GamesWon = 1,
                                    !.winner = Some(m.team1Id), !.completed = TRUE]
      [] r = "won30"   -> [m EXCEPT !.team1GamesWon = 3,
                                    !.winner = Some(m.team1Id), !.completed = TRUE]
      [] r = "lost03"  -> [m EXCEPT !.team2GamesWon = 3,
                                    !.winner = Some(m.team2Id), !.completed = TRUE]
      [] r = "drawn"   -> [m EXCEPT !.team1GamesWon = 1, !.team2GamesWon = 1,
                                    !.completed = TRUE]

\* Pool A's matches take every result, pool B's the results of this list.
ResultsB == {"open", "won21", "drawn"}

InitStandings ==
    /\ teams = filledTeams
    /\ \E ra \in [1..3 -> Results], rb \in [4..6 -> ResultsB] :
          matches = [k \in 1..6 |->
                        withResult(generatedMatches(filledTeams)[k],
                                   IF k <= 3 THEN ra[k] ELSE rb[k])]
    /\ knockoutMatches = generatedBracket
    /\ scheduleGenerated = TRUE
    /\ idleModal
    /\ store = NULL
    /\ inbox = <<>>
    /\ game = newGames(filledTeams.A[1], filledTeams.A[2])[1]
    /\ row = NULL
    /\ standingsTable = NULL

\* renderStandings(): both pools' tables show calculateStandings(pool).
renderStandings ==
    /\ standingsTable' = Some([pool \in {"A", "B"} |-> calculateStandings(teams, matches, pool)])
    /\ UNCHANGED <<engineVars, game, row>>

NextStandings == renderStandings

SpecStandings == InitStandings /\ [][NextStandings]_vars

\* The sum of a sequence of numbers.
RECURSIVE SumSeq(_)
SumSeq(q) == IF q = <<>> THEN 0 ELSE q[1] + SumSeq(Tail(q))

\* The sum over the matches of ms of what(m), a number per match.
Total(ms, what(_)) == SumSeq([k \in 1..Len(ms) |-> what(ms[k])])

\* The row with the given team id in a table.
RowOf(table, id) == table[CHOOSE i \in 1..Len(table) : table[i].id = id]

\* What a completed match of the pool contributes to team t, as the claim
\* states it.
ExpectedRow(ms, pool, t) ==
    LET counts(m) == m.pool = pool /\ m.completed /\ t \in {m.team1Id, m.team2Id}
        other(m) == IF m.team1Id = t THEN m.team2Id ELSE m.team1Id
        one(b) == IF b THEN 1 ELSE 0
        played(m) == one(counts(m))
        won(m) == one(counts(m) /\ m.winner = Some(t))
        lost(m) == one(counts(m) /\ m.winner = Some(other(m)))
        drawn(m) == one(counts(m) /\ m.winner = NULL)
        gamesFor(m) == IF ~counts(m) THEN 0
                       ELSE IF m.team1Id = t THEN m.team1GamesWon ELSE m.team2GamesWon
        gamesAgainst(m) == IF ~counts(m) THEN 0
                           ELSE IF m.team1Id = t THEN m.team2GamesWon ELSE m.team1GamesWon
    IN  [played |-> Total(ms, played),
         matchesWon |-> Total(ms, won),
         matchesLost |-> Total(ms, lost),
         gamesWon |-> Total(ms, gamesFor),
         gamesLost |-> Total(ms, gamesAgainst),
         points |-> 2 * Total(ms, won) + Total(ms, drawn)]

\* C6: calculateStandings(pool) returns one Standing per team of the pool,
\* computed from that pool's completed matches only: each adds 1 to both
\* teams' played and each side's games won to its gamesWon and to the other
\* side's gamesLost; a winner gets 2 points and a match won, the loser a
\* match lost; a completed match without winner gives both sides 1 point and
\* no match won or lost; other matches contribute nothing.
C6_StandingsTally ==
    standingsTable # NULL =>
        \A pool \in {"A", "B"} :
            LET table == Val(standingsTable)[pool]
            IN  /\ Len(table) = Len(teams[pool])
                /\ \A t \in 1..Len(teams[pool]) :
                      LET id == teams[pool][t].id
                          exp == ExpectedRow(matches, pool, id)
                      IN  /\ Cardinality({i \in 1..Len(table) : table[i].id = id}) = 1
                          /\ RowOf(table, id).name = teams[pool][t].name
                          /\ RowOf(table, id).played = exp.played
                          /\ RowOf(table, id).matchesWon = exp.matchesWon
                          /\ RowOf(table, id).matchesLost = exp.matchesLost
                          /\ RowOf(table, id).gamesWon = exp.gamesWon
                          /\ RowOf(table, id).gamesLost = exp.gamesLost
                          /\ RowOf(table, id).points = exp.points

\* C6's case: pool A's table is shown for a win of A1 over A2 by 2-1, a drawn
\* A1-A3 and an A2-A3 still being played; A1 has 2 + 1 points and one match
\* won, A3 one point and no match lost, A2 no points and one match lost.
C6_Witness ==
    /\ standingsTable # NULL
    /\ matches[1].completed /\ matches[1].winner = Some("A1")
    /\ matches[1].team1GamesWon = 2 /\ matches[1].team2GamesWon = 1
    /\ matches[2].completed /\ matches[2].winner = NULL
    /\ ~matches[3].completed /\ matches[3].team1GamesWon = 2
    /\ RowOf(Val(standingsTable).A, "A1").points = 3
    /\ RowOf(Val(standingsTable).A, "A1").played = 2
    /\ RowOf(Val(standingsTable).A, "A1").matchesWon = 1
    /\ RowOf(Val(standingsTable).A, "A2").played = 1
    /\ RowOf(Val(standingsTable).A, "A2").matchesLost = 1
    /\ RowOf(Val(standingsTable).A, "A2").gamesWon = 1
    /\ RowOf(Val(standingsTable).A, "A2").gamesLost = 2
    /\ RowOf(Val(standingsTable).A, "A3").points = 1
    /\ RowOf(Val(standingsTable).A, "A3").matchesLost = 0

\* The position of a team id in its pool's array.
PoolIndex(pool, id) == CHOOSE t \in 1..Len(teams[pool]) : teams[pool][t].id = id

\* C7: the list calculateStandings returns is ordered by points descending,
\* then by gamesWon - gamesLost descending, and teams equal on both keep
\* their pool-array order; with no completed match the order is the
\* pool-array order.
C7_StandingsOrder ==
    standingsTable # NULL =>
        \A pool \in {"A", "B"} :
            LET table == Val(standingsTable)[pool]
                diff(i) == table[i].gamesWon - table[i].gamesLost
            IN  /\ \A i \in 1..Len(table) : \A j \in (i + 1)..Len(table) :
                      \/ table[i].points > table[j].points
                      \/ /\ table[i].points = table[j].points
                         /\ diff(i) > diff(j)
                      \/ /\ table[i].points = table[j].points
                         /\ diff(i) = diff(j)
                         /\ PoolIndex(pool, table[i].id) < PoolIndex(pool, table[j].id)
                /\ (\A k \in 1..Len(matches) : matches[k].pool = pool => ~matches[k].completed)
                      => \A i \in 1..Len(table) : table[i].id = teams[pool][i].id

\* C7's case: pool A's table is shown with the last team of the pool on top,
\* the other two level on points and on game difference and in pool order.
C7_Witness ==
    /\ standingsTable # NULL
    /\ LET table == Val(standingsTable).A
       IN  /\ table[1].id = "A3"
           /\ table[2].id = "A1"
           /\ table[3].id = "A2"
           /\ table[2].points = table[3].points
           /\ table[2].played > 0
           /\ table[2].gamesWon - table[2].gamesLost = table[3].gamesWon - table[3].gamesLost

----------------------------------------------------------------------------
\* The server's store

\* db.getTournament(): the stored state, the defaultState object when no row
\* is stored.
getTournament(st) == IF st = NULL THEN serverDefault ELSE Val(st)

\* JSON text, as a tree of tokens: a string, a number in decimal digits, the
\* literals true, false and null, an array of texts, an object of texts.
jsonString(str) == <<"string", str>>

jsonNumber(n) == <<"number", ToString(n)>>

jsonBoolean(b) == <<"literal", IF b THEN "true" ELSE "false">>

jsonNull == <<"literal", "null">>

\* JSON.stringify of an array of strings.
stringifyStrings(seq) == <<"array", [i \in DOMAIN seq |-> jsonString(seq[i])]>>

\* JSON.stringify of a number, and of a string, that may be null.
stringifyScore(o) == IF o = NULL THEN jsonNull ELSE jsonNumber(Val(o))

stringifyWinner(o) == IF o = NULL THEN jsonNull ELSE jsonString(Val(o))

stringifyTeam(team) ==
    <<"object", [id |-> jsonString(team.id),
                 name |-> jsonString(team.name),
                 players |-> stringifyStrings(team.players)]>>

stringifyGame(g) ==
    <<"object", [id |-> jsonNumber(g.id),
                 team1Players |-> stringifyStrings(g.team1Players),
                 team2Players |-> stringifyStrings(g.team2Players),
                 team1Score |-> stringifyScore(g.team1Score),
                 team2Score |-> stringifyScore(g.team2Score),
                 winner |-> stringifyWinner(g.winner)]>>

stringifyGames(games) == <<"array", [i \in DOMAIN games |-> stringifyGame(games[i])]>>

stringifyMatch(m) ==
    <<"object", [id |-> jsonString(m.id),
                 pool |-> jsonString(m.pool),
                 team1Id |-> jsonString(m.team1Id),
                 team2Id |-> jsonString(m.team2Id),
                 team1Name |-> jsonString(m.team1Name),
                 team2Name |-> jsonString(m.team2Name),
                 games |-> stringifyGames(m.games),
                 team1GamesWon |-> jsonNumber(m.team1GamesWon),
                 team2GamesWon |-> jsonNumber(m.team2GamesWon),
                 winner |-> stringifyWinner(m.winner),
                 completed |-> jsonBoolean(m.completed)]>>

stringifyKnockoutMatch(m) ==
    <<"object", [id |-> jsonString(m.id),
                 seed1 |-> jsonString(m.seed1),
                 seed2 |-> jsonString(m.seed2),
                 team1 |-> IF m.team1 = NULL THEN jsonNull ELSE stringifyTeam(Val(m.team1)),
                 team2 |-> IF m.team2 = NULL THEN jsonNull ELSE stringifyTeam(Val(m.team2)),
                 games |-> stringifyGames(m.games),
                 team1GamesWon |-> jsonNumber(m.team1GamesWon),
                 team2GamesWon |-> jsonNumber(m.team2GamesWon),
                 winner |-> stringifyWinner(m.winner),
                 completed |-> jsonBoolean(m.completed)]>>

\* JSON.stringify(state): every own property of teams and of knockoutMatches
\* is written, whatever its key.
stringify(state) ==
    <<"object",
      [teams |-> <<"object", [pool \in DOMAIN state.teams |->
                    <<"array", [i \in DOMAIN state.teams[pool] |->
                                   stringifyTeam(state.teams[pool][i])]>>]>>,
       matches |-> <<"array", [i \in DOMAIN state.matches |->
                                  stringifyMatch(state.matches[i])]>>,
       knockoutMatches |-> <<"object", [key \in DOMAIN state.knockoutMatches |->
                    IF state.knockoutMatches[key] = NULL THEN jsonNull
                    ELSE stringifyKnockoutMatch(Val(state.knockoutMatches[key]))]>>,
       scheduleGenerated |-> jsonBoolean(state.scheduleGenerated)]>>

\* JSON.parse, token by token.
parseString(text) == text[2]

parseNumber(text) == CHOOSE n \in 0..ScoreCap : ToString(n) = text[2]

parseBoolean(text) == text[2] = "true"

\* The text is the literal null.
parsesNull(text) == text[1] = "literal" /\ text[2] = "null"

parseStrings(text) == [i \in DOMAIN text[2] |-> parseString(text[2][i])]

parseScore(text) == IF parsesNull(text) THEN NULL ELSE Some(parseNumber(text))

parseWinner(text) == IF parsesNull(text) THEN NULL ELSE Some(parseString(text))

\* The properties of an object text.
properties(text) == DOMAIN text[2]

parseTeam(text) ==
    [f \in properties(text) |->
        IF f = "players" THEN parseStrings(text[2][f]) ELSE parseString(text[2][f])]

parseGame(text) ==
    [f \in properties(text) |->
        CASE f = "id" -> parseNumber(text[2][f])
          [] f \in {"team1Players", "team2Players"} -> parseStrings(text[2][f])
          [] f \in {"team1Score", "team2Score"} -> parseScore(text[2][f])
          [] OTHER -> parseWinner(text[2][f])]

parseMatch(text) ==
    [f \in properties(text) |->
        CASE f = "games" -> [i \in DOMAIN text[2][f][2] |-> parseGame(text[2][f][2][i])]
          [] f \in {"team1GamesWon", "team2GamesWon"} -> parseNumber(text[2][f])
          [] f \in {"team1", "team2"} ->
                 IF parsesNull(text[2][f]) THEN NULL ELSE Some(parseTeam(text[2][f]))
          [] f = "winner" -> parseWinner(text[2][f])
          [] f = "completed" -> parseBoolean(text[2][f])
          [] OTHER -> parseString(text[2][f])]

parse(text) ==
    [teams |-> [pool \in properties(text[2].teams) |->
                    [i \in DOMAIN text[2].teams[2][pool][2] |->
                        parseTeam(text[2].teams[2][pool][2][i])]],
     matches |-> [i \in DOMAIN text[2].matches[2] |-> parseMatch(text[2].matches[2][i])],
     knockoutMatches |-> [key \in properties(text[2].knockoutMatches) |->
                    IF parsesNull(text[2].knockoutMatches[2][key]) THEN NULL
                    ELSE Some(parseMatch(text[2].knockoutMatches[2][key]))],
     scheduleGenerated |-> parseBoolean(text[2].scheduleGenerated)]

\* A store that keeps the row it has: the write is done only when there is
\* no row yet.
saveTournamentFirstWins(st, state) ==
    IF st # NULL THEN st ELSE Some(parse(stringify(state)))

\* db.saveTournament(state): the state is written as JSON text over the row
\* (UPDATE) or as the row (INSERT); what getTournament then reads is returned.
saveTournament(st, state) ==
    IF st # NULL THEN Some(parse(stringify(state))) ELSE Some(parse(stringify(state)))

\* { ...old, ...data }: data's fields over old's.
spread(old, data) ==
    [f \in (DOMAIN old) \cup (DOMAIN data) |-> IF f \in DOMAIN data THEN data[f] ELSE old[f]]

\* ms.findIndex(m => m.id === id), counted from 1; 0 when there is none.
findIndex(ms, id) ==
    IF \E i \in 1..Len(ms) : ms[i].id = id
    THEN CHOOSE i \in 1..Len(ms) : ms[i].id = id /\ \A j \in 1..(i - 1) : ms[j].id # id
    ELSE 0

\* db.updateMatch(matchId, matchData): the state it saves, NULL when it
\* throws because no stored match has that id.
updateMatch(st, matchId, matchData) ==
    LET state == getTournament(st)
        matchIndex == findIndex(state.matches, matchId)
    IN  IF matchIndex = 0 THEN NULL
        ELSE Some([state EXCEPT !.matches[matchIndex] = spread(@, matchData)])

----------------------------------------------------------------------------
\* The client

\* The body of saveTournament's POST.
localState ==
    [teams |-> teams,
     matches |-> matches,
     knockoutMatches |-> knockoutMatches,
     scheduleGenerated |-> scheduleGenerated]

\* The ids of the match cards of a rendered schedule.
GroupIds == {"A-A1-A2", "A-A1-A3", "A-A2-A3", "B-B1-B2", "B-B1-B3", "B-B2-B3"}

\* currentEditMatch is a reference. While the object it refers to is part
\* of state (attached), the object is read from state.matches or
\* state.knockoutMatches under its key; once a broadcast has replaced
\* state's objects, the modal still holds the old object (obj).
editObject ==
    LET cur == Val(currentEditMatch)
    IN  IF ~cur.attached THEN Val(cur.obj)
        ELSE IF currentEditType = Some("group") THEN matches[findIndex(matches, cur.key)]
        ELSE Val(knockoutMatches[cur.key])

\* At most this many broadcasts are on their way to the client at a time.
MaxInflight == 1

\* The broadcasts the second client has not handled yet are at most this many.
MaxPeerInflight == 2

\* The broadcasts queued for the second client, with the sender of the
\* request that caused the one that is added.
queued(pr, ws, who) == IF pr = NULL THEN ws ELSE Append(ws, who)

\* A broadcast that reaches nobody but the first client.
emittedToNone(pr, state) == pr

\* io.emit('tournament:updated', state): to the client and to the second
\* client when there is one.
emitted(pr, state) ==
    IF pr = NULL THEN NULL ELSE Some([Val(pr) EXCEPT !.inbox = Append(@, state)])

\* A request is followed while the broadcasts that are not yet handled are few.
deliverable ==
    /\ Len(inbox) < MaxInflight
    /\ peer # NULL => Len(Val(peer).inbox) < MaxPeerInflight

\* res.json(state) and res.status(n).json({ error }).
answer(status, body) == Some([status |-> status, body |-> body])

\* The score modal is opened for a match only while the run's bounds b leave
\* room for a score entry on it: b.maxSaves entries, on b.maxEdited matches.
mayEdit(key, b) ==
    /\ saves < b.maxSaves
    /\ Cardinality(edited \cup {key}) <= b.maxEdited

\* generateSchedule(): nothing happens on a setup that fails the validation;
\* otherwise the schedule is built and posted. The POST is handled ("ok"), or
\* answered with an error status ("refused": 401 without a login when
\* authentication is configured, 500 when the store throws), or it fails
\* without an answer ("failed"). fetch rejects only in the last case, which
\* alone reverts the schedule; response.json() reads an error body as well.
\* (The button is reached only while the modal is closed.)
generateSchedule(outcomes) ==
    /\ currentEditMatch = NULL
    /\ validSetup(teams)
    /\ deliverable
    /\ \E outcome \in outcomes :
          LET built == [teams |-> teams,
                        matches |-> generatedMatches(teams),
                        knockoutMatches |-> generatedBracket,
                        scheduleGenerated |-> TRUE]
          IN  /\ IF outcome = "failed"
                 THEN /\ matches' = <<>>
                      /\ knockoutMatches' = [semi1 |-> NULL, semi2 |-> NULL, final |-> NULL]
                      /\ scheduleGenerated' = FALSE
                      /\ toast' = Some("Failed to save changes")
                 ELSE /\ matches' = built.matches
                      /\ knockoutMatches' = built.knockoutMatches
                      /\ scheduleGenerated' = TRUE
                      /\ toast' = Some("Schedule generated successfully!")
              /\ IF outcome = "ok"
                 THEN /\ store' = saveTournament(store, built)
                      /\ inbox' = Append(inbox, Val(store'))
                      /\ peer' = emitted(peer, Val(store'))
                      /\ writers' = queued(peer, writers, "client")
                      /\ reply' = answer(200, store')
                 ELSE /\ UNCHANGED <<store, inbox, peer, writers>>
                      /\ reply' = IF outcome = "refused" THEN answer(500, NULL) ELSE reply
    /\ saves' = 0
    /\ edited' = {}
    /\ UNCHANGED <<teams, currentEditMatch, currentEditType, saving, rendered,
                   formsDisabled, timers, pendingSave, serverDefault, request, edits, game, row,
                   standingsTable, calls>>

\* allTeams: pool A's teams, then pool B's.
allTeams(tm) == tm.A \o tm.B

\* The validation loop's test of one team: its name, then its players.
teamError(team) ==
    IF trim(team.name) = "" THEN "Please enter names for all teams"
    ELSE IF \E q \in 1..3 : trim(team.players[q]) = "" THEN "Please select all players"
    ELSE ""

\* The toast of generateSchedule's validation: that of the first team that
\* fails, or the duplicate's when every team passes.
validationError(tm) ==
    LET failing == {k \in 1..6 : teamError(allTeams(tm)[k]) # ""}
    IN  IF failing = {}
        THEN "Each player can only be on one team"
        ELSE teamError(allTeams(tm)[CHOOSE k \in failing : \A j \in failing : k <= j])

\* generateSchedule() on a setup that fails the validation: a toast, no other
\* change, no request.
generateScheduleInvalid ==
    /\ currentEditMatch = NULL
    /\ ~validSetup(teams)
    /\ toast' = Some(validationError(teams))
    /\ UNCHANGED <<teams, matches, knockoutMatches, scheduleGenerated, currentEditMatch,
                   currentEditType, saving, rendered, store, inbox, saves, edited,
                   setupVars, serverDefault, request, reply, game, row, standingsTable, calls,
                   writers>>

\* socket.on('tournament:updated'): state's four fields are replaced by the
\* broadcast's; unless pendingSave is set (for about 100 ms after a debounced
\* save), the team forms and, for a generated schedule, the views are
\* rendered; renderKnockout begins with updateKnockoutTeams. An object the
\* modal edits is no longer part of state.
tournamentUpdated ==
    /\ inbox # <<>>
    /\ LET newState == Head(inbox)
       IN  /\ teams' = newState.teams
           /\ matches' = newState.matches
           /\ scheduleGenerated' = newState.scheduleGenerated
           /\ IF pendingSave
              THEN /\ knockoutMatches' = newState.knockoutMatches
                   /\ UNCHANGED <<rendered, formsDisabled>>
              ELSE /\ knockoutMatches' =
                         updateKnockoutTeams(newState.teams, newState.matches,
                                             newState.knockoutMatches,
                                             newState.scheduleGenerated)
                   /\ rendered' = (rendered \/ newState.scheduleGenerated)
                   /\ formsDisabled' = newState.scheduleGenerated
    /\ inbox' = Tail(inbox)
    /\ currentEditMatch' =
          IF currentEditMatch # NULL /\ Val(currentEditMatch).attached
          THEN Some([Val(currentEditMatch) EXCEPT !.attached = FALSE, !.obj = Some(editObject)])
          ELSE currentEditMatch
    /\ UNCHANGED <<currentEditType, saving, store, saves, edited, timers, pendingSave,
                   toast, peer, serverDefault, request, edits, reply, game, row,
                   standingsTable, calls, writers>>

\* openScoreModal(matchId), from the button of a rendered match card.
openScoreModal(matchId, b) ==
    /\ rendered
    /\ currentEditMatch = NULL
    /\ mayEdit(matchId, b)
    /\ findIndex(matches, matchId) # 0
    /\ currentEditMatch' = Some([key |-> matchId, attached |-> TRUE, obj |-> NULL])
    /\ currentEditType' = Some("group")
    /\ UNCHANGED <<teams, matches, knockoutMatches, scheduleGenerated, saving, rendered,
                   store, inbox, saves, edited, setupVars, toast, serverDefault, request, reply,
                   game, row, standingsTable, calls, writers>>

\* openKnockoutScoreModal(matchKey), from a click on a rendered bracket
\* match: refused while a team of the match is missing; the match's games
\* are created when it has none.
openKnockoutScoreModal(matchKey, b) ==
    /\ rendered
    /\ currentEditMatch = NULL
    /\ mayEdit(matchKey, b)
    /\ knockoutMatches[matchKey] # NULL
    /\ Val(knockoutMatches[matchKey]).team1 # NULL
    /\ Val(knockoutMatches[matchKey]).team2 # NULL
    /\ currentEditMatch' = Some([key |-> matchKey, attached |-> TRUE, obj |-> NULL])
    /\ currentEditType' = Some("knockout")
    /\ knockoutMatches' =
          IF Len(Val(knockoutMatches[matchKey]).games) = 0
          THEN [knockoutMatches EXCEPT ![matchKey] = Some(initializeKnockoutGames(Val(@)))]
          ELSE knockoutMatches
    /\ UNCHANGED <<teams, matches, scheduleGenerated, saving, rendered, store, inbox,
                   saves, edited, setupVars, toast, serverDefault, request, reply, game, row,
                   standingsTable, calls, writers>>

\* closeModal(), from the modal's close and cancel buttons.
closeModal ==
    /\ currentEditMatch # NULL
    /\ ~saving
    /\ currentEditMatch' = NULL
    /\ currentEditType' = NULL
    /\ UNCHANGED <<teams, matches, knockoutMatches, scheduleGenerated, saving, rendered,
                   store, inbox, saves, edited, setupVars, toast, serverDefault, request, reply,
                   game, row, standingsTable, calls, writers>>

\* saveScore() up to its await, on the values `inputs` of the modal's score
\* fields: the edited object is scored; a group match is sent to the server
\* as a match patch; for a knockout match the final is updated from the
\* semifinals and the whole state is posted. The server handles the request
\* (outcome "ok") or the request fails; a handled write is broadcast.
saveScore(b) ==
    /\ currentEditMatch # NULL
    /\ ~saving
    /\ saves < b.maxSaves
    /\ Len(inbox) < MaxInflight
    /\ \E inputs \in b.sheets, outcome \in b.outcomes :
          LET cur == Val(currentEditMatch)
              type == Val(currentEditType)
              scored == scoreMatch(editObject, type, inputs)
          IN  /\ currentEditMatch' =
                    IF cur.attached THEN currentEditMatch
                    ELSE Some([cur EXCEPT !.obj = Some(scored)])
              /\ IF type = "group"
                 THEN /\ matches' =
                            IF cur.attached
                            THEN [matches EXCEPT ![findIndex(matches, cur.key)] = scored]
                            ELSE matches
                      /\ UNCHANGED knockoutMatches
                      /\ LET patched == updateMatch(store, scored.id, scored)
                         IN  IF outcome = "ok" /\ patched # NULL
                             THEN /\ store' = saveTournament(store, Val(patched))
                                  /\ inbox' = Append(inbox, Val(store'))
                                  /\ peer' = emitted(peer, Val(store'))
                                  /\ writers' = queued(peer, writers, "client")
                                  /\ reply' = answer(200, store')
                             ELSE /\ UNCHANGED <<store, inbox, peer, writers>>
                                  /\ reply' = IF outcome = "failed" THEN reply
                                              ELSE answer(500, NULL)
                 ELSE /\ UNCHANGED matches
                      /\ knockoutMatches' =
                            updateKnockoutProgression(
                                IF cur.attached
                                THEN [knockoutMatches EXCEPT ![cur.key] = Some(scored)]
                                ELSE knockoutMatches)
                      /\ IF outcome = "ok"
                         THEN /\ store' = saveTournament(store,
                                             [localState EXCEPT
                                                 !.knockoutMatches = knockoutMatches'])
                              /\ inbox' = Append(inbox, Val(store'))
                              /\ peer' = emitted(peer, Val(store'))
                              /\ writers' = queued(peer, writers, "client")
                              /\ reply' = answer(200, store')
                         ELSE /\ UNCHANGED <<store, inbox, peer, writers>>
                              /\ reply' = IF outcome = "failed" THEN reply
                                          ELSE answer(500, NULL)
    /\ saving' = TRUE
    /\ saves' = saves + 1
    /\ edited' = edited \cup {Val(currentEditMatch).key}
    /\ UNCHANGED <<teams, scheduleGenerated, currentEditType, rendered, formsDisabled,
                   timers, pendingSave, toast, serverDefault, request, edits, game, row,
                   standingsTable, calls>>

\* A saveScore whose catch puts the stored matches and bracket back when the
\* write was answered with an error.
saveScoreDoneReverting ==
    /\ saving
    /\ saving' = FALSE
    /\ currentEditMatch' = NULL
    /\ currentEditType' = NULL
    /\ toast' = Some("Score saved!")
    /\ matches' = IF reply # NULL /\ Val(reply).status # 200
                  THEN getTournament(store).matches ELSE matches
    /\ knockoutMatches' = IF reply # NULL /\ Val(reply).status # 200
                          THEN getTournament(store).knockoutMatches ELSE knockoutMatches
    /\ UNCHANGED <<teams, scheduleGenerated, rendered, store,
                   inbox, saves, edited, setupVars, serverDefault, request, reply, game, row,
                   standingsTable, calls, writers>>

\* saveScore() after its await: the toast, then closeModal(). The toast is
\* the failure's only when fetch rejected; the model's entries are answered.
saveScoreDone ==
    /\ saving
    /\ saving' = FALSE
    /\ currentEditMatch' = NULL
    /\ currentEditType' = NULL
    /\ toast' = Some("Score saved!")
    /\ UNCHANGED <<teams, matches, knockoutMatches, scheduleGenerated, rendered, store,
                   inbox, saves, edited, setupVars, serverDefault, request, reply, game, row,
                   standingsTable, calls, writers>>

\* The client once the setup form has been filled in (and saved by the
\* debounced saves): correctly, with a blank slot, or with a player twice.
InitEngine ==
    /\ teams \in {filledTeams, blankTeams, duplicateTeams}
    /\ matches = <<>>
    /\ knockoutMatches = [semi1 |-> NULL, semi2 |-> NULL, final |-> NULL]
    /\ scheduleGenerated = FALSE
    /\ idleModal
    /\ store = Some([defaultState EXCEPT !.teams = teams])
    /\ inbox = <<>>
    /\ game = newGames(filledTeams.A[1], filledTeams.A[2])[1]
    /\ row = NULL
    /\ standingsTable = NULL

\* How a write request can end: handled by the server, or failed.
Outcomes == {"ok", "failed"}

----------------------------------------------------------------------------
\* Score entry on every kind of score sheet

\* What the two score fields of a game can be given: nothing, one score
\* only, a win of team1, a win of team2, a score that decides nothing.
blank == <<"", "">>

half == <<"21", "">>

won == <<"21", "19">>

lost == <<"19", "21">>

tied == <<"20", "20">>

\* The score sheets entered: no, one, two and three games scored, each side
\* ahead, both level, a game left half filled, a game that nobody won.
Sheets ==
    { <<blank, blank, blank>>, <<won, blank, blank>>, <<won, half, blank>>,
      <<won, won, blank>>, <<won, lost, blank>>, <<won, lost, won>>,
      <<lost, won, lost>>, <<lost, lost, lost>>, <<tied, tied, blank>>,
      <<won, tied, blank>>, <<blank, won, lost>>, <<half, lost, lost>> }

\* At most this many score entries are made, on at most this many matches.
MaxSaves == 2

MaxEdited == 1

ScoreBounds ==
    [maxSaves |-> MaxSaves, maxEdited |-> MaxEdited, sheets |-> Sheets, outcomes |-> {"ok"}]

NextScore ==
    \/ generateSchedule(Outcomes)
    \/ generateScheduleInvalid
    \/ tournamentUpdated
    \/ \E matchId \in GroupIds : openScoreModal(matchId, ScoreBounds)
    \/ \E matchKey \in {"semi1", "semi2", "final"} : openKnockoutScoreModal(matchKey, ScoreBounds)
    \/ closeModal
    \/ saveScore(ScoreBounds)
    \/ saveScoreDone

SpecScore == InitEngine /\ [][NextScore]_vars

\* A game's scores are both entered and decide it for team1 (side 1) or for
\* team2 (side 2).
wonBy(g, side) ==
    /\ g.team1Score # NULL
    /\ g.team2Score # NULL
    /\ IF side = 1 THEN isGameWinner(Val(g.team1Score), Val(g.team2Score))
       ELSE isGameWinner(Val(g.team2Score), Val(g.team1Score))

gamesWonBy(m, side) == Cardinality({g \in 1..Len(m.games) : wonBy(m.games[g], side)})

\* C3: once saveScore has been applied to a group or knockout match, the
\* match is completed if and only if every one of its games has both scores
\* entered and one side satisfying isGameWinner, and team1GamesWon and
\* team2GamesWon are the numbers of its games that team1 and team2 win on the
\* entered scores.
C3_CompletedAndCounts ==
    saving =>
        LET m == editObject
        IN  /\ m.completed <=>
                  \A g \in 1..Len(m.games) : wonBy(m.games[g], 1) \/ wonBy(m.games[g], 2)
            /\ m.team1GamesWon = gamesWonBy(m, 1)
            /\ m.team2GamesWon = gamesWonBy(m, 2)

\* A semifinal has just been saved with two games to team1 and none to team2,
\* the third game not entered: not completed.
C3_Witness ==
    /\ saving
    /\ currentEditType = Some("knockout")
    /\ editObject.team1GamesWon = 2
    /\ editObject.team2GamesWon = 0
    /\ ~editObject.completed

\* C4: whenever saveScore leaves a match completed, its winner is the id of
\* the side with strictly more games won (team1Id/team2Id of a group match,
\* team1.id/team2.id of a knockout match), and unset when the two counts are
\* equal.
C4_MatchWinner ==
    (saving /\ editObject.completed) =>
        LET m == editObject
            id1 == IF currentEditType = Some("group") THEN m.team1Id ELSE Val(m.team1).id
            id2 == IF currentEditType = Some("group") THEN m.team2Id ELSE Val(m.team2).id
        IN  m.winner = IF m.team1GamesWon > m.team2GamesWon THEN Some(id1)
                       ELSE IF m.team2GamesWon > m.team1GamesWon THEN Some(id2)
                       ELSE NULL

\* A group match that team1 had won is saved again, now won by team2.
C4_Witness ==
    /\ saving
    /\ saves = 2
    /\ currentEditType = Some("group")
    /\ editObject.completed
    /\ editObject.team2GamesWon > editObject.team1GamesWon
    /\ editObject.winner = Some(editObject.team2Id)

\* The games of the client's state.
stateGames ==
    UNION ({ {matches[i].games[g] : g \in 1..Len(matches[i].games)} : i \in 1..Len(matches) }
           \cup { IF knockoutMatches[k] = NULL THEN {}
                  ELSE {Val(knockoutMatches[k]).games[g] :
                            g \in 1..Len(Val(knockoutMatches[k]).games)} :
                  k \in {"semi1", "semi2", "final"} })

\* C5: in every reachable state each game's winner is 'team1' exactly when
\* both scores are present and decide the game for team1, 'team2' exactly
\* when they decide it for team2, and unset otherwise.
C5_GameWinnerDerived ==
    \A g \in stateGames :
        g.winner = IF wonBy(g, 1) THEN Some("team1")
                   ELSE IF wonBy(g, 2) THEN Some("team2")
                   ELSE NULL

----------------------------------------------------------------------------
\* Group results and the bracket

\* Every match is scored with the sheet that completes it three games to
\* none for team2, which turns the pool order round.
KnockoutSheets == { <<lost, lost, lost>> }

\* At most this many score entries are made, on any of the matches.
MaxKnockoutSaves == 4

KnockoutBounds ==
    [maxSaves |-> MaxKnockoutSaves,
     maxEdited |-> Cardinality(GroupIds) + Len(KnockoutKeys),
     sheets |-> KnockoutSheets,
     outcomes |-> {"ok"}]

NextKnockout ==
    \/ generateSchedule(Outcomes)
    \/ generateScheduleInvalid
    \/ tournamentUpdated
    \/ \E matchId \in GroupIds : openScoreModal(matchId, KnockoutBounds)
    \/ \E matchKey \in {"semi1", "semi2", "final"} :
          openKnockoutScoreModal(matchKey, KnockoutBounds)
    \/ closeModal
    \/ saveScore(KnockoutBounds)
    \/ saveScoreDone

SpecKnockout == InitEngine /\ [][NextKnockout]_vars

\* The team of the pool at that position of calculateStandings.
ranked(tm, ms, pool, position) ==
    LET id == calculateStandings(tm, ms, pool)[position].id
    IN  Some(CHOOSE t \in {tm[pool][i] : i \in 1..Len(tm[pool])} : t.id = id)

seeded(tm, ms, ko) ==
    /\ Val(ko.semi1).team1 = ranked(tm, ms, "A", 1)
    /\ Val(ko.semi1).team2 = ranked(tm, ms, "B", 2)
    /\ Val(ko.semi2).team1 = ranked(tm, ms, "B", 1)
    /\ Val(ko.semi2).team2 = ranked(tm, ms, "A", 2)

\* C8: after every execution of updateKnockoutTeams on a generated schedule
\* (the step that takes a broadcast and renders), semi1's teams are the first
\* of pool A's standings and the second of pool B's, and semi2's teams are
\* the first of pool B's and the second of pool A's.
C8_SemifinalSeeds ==
    [][(inbox # <<>> /\ inbox' = Tail(inbox) /\ scheduleGenerated')
          => seeded(teams', matches', knockoutMatches')]_vars

completedIn(pool) ==
    Cardinality({i \in 1..Len(matches) : matches[i].pool = pool /\ matches[i].completed})

\* Both pools have two completed matches, the last result has been rendered,
\* and neither pool is led by its first team.
C8_Witness ==
    /\ scheduleGenerated
    /\ inbox = <<>>
    /\ ~saving
    /\ completedIn("A") >= 2
    /\ completedIn("B") >= 2
    /\ seeded(teams, matches, knockoutMatches)
    /\ Val(Val(knockoutMatches.semi1).team1).id # "A1"
    /\ Val(Val(knockoutMatches.semi2).team1).id # "B1"

\* The semifinal slots filled from a pool.
slotsOf(pool) ==
    IF pool = "A"
    THEN {Val(knockoutMatches.semi1).team1, Val(knockoutMatches.semi2).team2}
    ELSE {Val(knockoutMatches.semi1).team2, Val(knockoutMatches.semi2).team1}

\* C9: on a generated schedule, the semifinal slots of a pool hold no team
\* while the pool has no completed match to rank its teams by, and a
\* semifinal has no games while one of its slots holds no team.
C9_SlotsUndetermined ==
    (scheduleGenerated /\ knockoutMatches.semi1 # NULL /\ knockoutMatches.semi2 # NULL) =>
        /\ \A pool \in {"A", "B"} : completedIn(pool) = 0 => slotsOf(pool) = {NULL}
        /\ \A k \in {"semi1", "semi2"} :
              (Val(knockoutMatches[k]).team1 = NULL \/ Val(knockoutMatches[k]).team2 = NULL)
                  => Val(knockoutMatches[k]).games = <<>>

\* The side of the final fed by a semifinal is the semifinal's team whose id
\* is the semifinal's winner, once the semifinal is completed with a winner.
finalFollows(semiKey, side) ==
    LET semi == Val(knockoutMatches[semiKey])
        fin == Val(knockoutMatches.final)
        slot == IF side = 1 THEN fin.team1 ELSE fin.team2
    IN  (semi.completed /\ semi.winner # NULL) =>
            /\ slot \in {semi.team1, semi.team2}
            /\ slot # NULL
            /\ Val(slot).id = Val(semi.winner)

\* C10: after a knockout score is saved (saveScore with its
\* updateKnockoutProgression), the final's team1 is the team of semi1 whose
\* id is semi1.winner when semi1 is completed with a winner, and the final's
\* team2 is the team of semi2 whose id is semi2.winner likewise.
C10_FinalFollowsSemifinals ==
    [][(~saving /\ saving' /\ currentEditType = Some("knockout"))
          => (finalFollows("semi1", 1) /\ finalFollows("semi2", 2))']_vars

\* A semifinal score entry: the step of saveScore on semi1 or semi2.
semifinalEntry ==
    /\ ~saving
    /\ saving'
    /\ currentEditType = Some("knockout")
    /\ Val(currentEditMatch).key \in {"semi1", "semi2"}

\* The games are the three unscored games of the two teams: game k pairs the
\* players at indices (0,1), (0,2), (1,2) of each side.
freshGamesOf(games, team1, team2) ==
    LET pair == <<<<1, 2>>, <<1, 3>>, <<2, 3>>>>
    IN  /\ Len(games) = 3
        /\ \A k \in 1..3 :
              /\ games[k].team1Players =
                    <<Val(team1).players[pair[k][1]], Val(team1).players[pair[k][2]]>>
              /\ games[k].team2Players =
                    <<Val(team2).players[pair[k][1]], Val(team2).players[pair[k][2]]>>
              /\ games[k].team1Score = NULL
              /\ games[k].team2Score = NULL
              /\ games[k].winner = NULL

\* C11: a semifinal score entry creates the final's three games when both
\* sides of the final are resolved and it has none (and creates none while a
\* side is missing); once the final has games, a semifinal score entry
\* leaves them as they are, even when it changes a side of the final.
C11_FinalGamesKept ==
    [][semifinalEntry =>
          IF Val(knockoutMatches.final).games # <<>>
          THEN Val(knockoutMatches'.final).games = Val(knockoutMatches.final).games
          ELSE IF Val(knockoutMatches'.final).team1 # NULL
                  /\ Val(knockoutMatches'.final).team2 # NULL
               THEN freshGamesOf(Val(knockoutMatches'.final).games,
                                 Val(knockoutMatches'.final).team1,
                                 Val(knockoutMatches'.final).team2)
               ELSE Val(knockoutMatches'.final).games = <<>>]_vars

\* A semifinal has just been saved, the final has its games, and team1 of
\* the final is no longer the team whose players its games were made for.
C11_Witness ==
    /\ saving
    /\ currentEditType = Some("knockout")
    /\ Val(currentEditMatch).key \in {"semi1", "semi2"}
    /\ Len(Val(knockoutMatches.final).games) = 3
    /\ Val(knockoutMatches.final).team1 # NULL
    /\ Val(Val(knockoutMatches.final).team1).players[1]
          # Val(knockoutMatches.final).games[1].team1Players[1]

----------------------------------------------------------------------------
\* Schedule generation

\* The step of a generateSchedule whose POST the server handled: its
\* broadcast goes out while no modal is open.
generated == currentEditMatch = NULL /\ Len(inbox') > Len(inbox)

\* The pool and the two team positions of the k-th group match.
fixture(k) ==
    <<IF k <= 3 THEN "A" ELSE "B",
      <<1, 1, 2>>[((k - 1) % 3) + 1],
      <<2, 3, 3>>[((k - 1) % 3) + 1]>>

\* ms is the list of six unplayed group matches of the teams tm, in the
\* order (team0,team1), (team0,team2), (team1,team2) of pool A, then of pool B.
freshGroupStage(ms, tm) ==
    /\ Len(ms) = 6
    /\ \A k \in 1..6 :
          LET team1 == tm[fixture(k)[1]][fixture(k)[2]]
              team2 == tm[fixture(k)[1]][fixture(k)[3]]
          IN  /\ ms[k].pool = fixture(k)[1]
              /\ ms[k].team1Id = team1.id
              /\ ms[k].team2Id = team2.id
              /\ freshGamesOf(ms[k].games, Some(team1), Some(team2))
              /\ ms[k].team1GamesWon = 0
              /\ ms[k].team2GamesWon = 0
              /\ ms[k].winner = NULL
              /\ ~ms[k].completed

\* C12: a successful generateSchedule produces exactly 6 group matches, pool
\* A's (team0,team1), (team0,team2), (team1,team2) and then pool B's, each
\* with 3 games on the player pairs (0,1), (0,2), (1,2) of both teams,
\* nothing scored, both games-won counts 0, no winner and not completed.
C12_GroupStage ==
    [][generated => freshGroupStage(matches', teams')]_vars

\* The schedule is generated again over one that had been rendered: the six
\* matches are there, unplayed, and the broadcast is on its way.
C12_Witness ==
    /\ rendered
    /\ scheduleGenerated
    /\ inbox # <<>>
    /\ saves = 0
    /\ currentEditMatch = NULL
    /\ Len(matches) = 6
    /\ matches[5].team1Id = "B1" /\ matches[5].team2Id = "B3"
    /\ \A k \in 1..6 : ~matches[k].completed

\* ko is a bracket of three unplayed matches with the seeds A1-B2, B1-A2 and
\* W1-W2 and no team resolved.
freshBracket(ko) ==
    /\ DOMAIN ko = {"semi1", "semi2", "final"}
    /\ \A k \in DOMAIN ko :
          /\ ko[k] # NULL
          /\ Val(ko[k]).id = k
          /\ Val(ko[k]).team1 = NULL
          /\ Val(ko[k]).team2 = NULL
          /\ Val(ko[k]).games = <<>>
          /\ Val(ko[k]).team1GamesWon = 0
          /\ Val(ko[k]).team2GamesWon = 0
          /\ Val(ko[k]).winner = NULL
          /\ ~Val(ko[k]).completed
    /\ <<Val(ko.semi1).seed1, Val(ko.semi1).seed2>> = <<"A1", "B2">>
    /\ <<Val(ko.semi2).seed1, Val(ko.semi2).seed2>> = <<"B1", "A2">>
    /\ <<Val(ko.final).seed1, Val(ko.final).seed2>> = <<"W1", "W2">>

\* C13: a successful generateSchedule creates the bracket semi1 (A1, B2),
\* semi2 (B1, A2), final (W1, W2), each without teams, games, games won or
\* winner and not completed, and sets scheduleGenerated.
C13_Bracket ==
    [][generated => (freshBracket(knockoutMatches') /\ scheduleGenerated')]_vars

\* The schedule is generated again over a rendered bracket, whose semifinals
\* had their teams: the bracket is without teams again, in the client and in
\* the store, and its broadcast is on its way.
C13_Witness ==
    /\ rendered
    /\ scheduleGenerated
    /\ inbox # <<>>
    /\ currentEditMatch = NULL
    /\ freshBracket(knockoutMatches)
    /\ store # NULL
    /\ freshBracket(Val(store).knockoutMatches)

\* ---------------------------------------------------------------------------
\* The setup form: team names and players, the debounced save, the reset,
\* and a second client on the same server.
\* ---------------------------------------------------------------------------

\* At most this many changes are made in the team forms.
MaxEdits == 2

\* state.players: the roster's names.
players == UNION {{Roster(pool, t)[q] : q \in 1..3} : pool \in {"A", "B"}, t \in 1..3}

\* getSelectedPlayers(): the players some slot holds.
getSelectedPlayers(tm) == {allPlayers(tm)[k] : k \in 1..18} \ {""}

\* The options of a player dropdown hold value: the placeholder, the slot's
\* player and the players no slot holds.
playerOption(tm, current, value) ==
    \/ value = ""
    \/ /\ value \in players
       /\ value = current \/ value \notin getSelectedPlayers(tm)

\* The 'input' listener on a team name: the name is set and the save armed.
\* A disabled input takes no input.
editTeamName(pool, index, value) ==
    /\ ~formsDisabled
    /\ currentEditMatch = NULL
    /\ value # teams[pool][index].name
    /\ teams' = [teams EXCEPT ![pool][index].name = value]
    /\ timers' = [timers EXCEPT !.save = TRUE]
    /\ edits < MaxEdits
    /\ edits' = edits + 1
    /\ UNCHANGED <<matches, knockoutMatches, scheduleGenerated, currentEditMatch,
                   currentEditType, saving, rendered, store, inbox, saves, edited,
                   formsDisabled, pendingSave, toast, peer, serverDefault, request, reply, game,
                   row, standingsTable, calls, writers>>

\* The 'change' listener on a player dropdown: one of its options is chosen.
changePlayer(pool, index, player, value) ==
    /\ ~formsDisabled
    /\ currentEditMatch = NULL
    /\ value # teams[pool][index].players[player]
    /\ playerOption(teams, teams[pool][index].players[player], value)
    /\ teams' = [teams EXCEPT ![pool][index].players[player] = value]
    /\ timers' = [timers EXCEPT !.save = TRUE]
    /\ edits < MaxEdits
    /\ edits' = edits + 1
    /\ UNCHANGED <<matches, knockoutMatches, scheduleGenerated, currentEditMatch,
                   currentEditType, saving, rendered, store, inbox, saves, edited,
                   formsDisabled, pendingSave, toast, peer, serverDefault, request, reply, game,
                   row, standingsTable, calls, writers>>

\* debouncedSave's timer fires: pendingSave is set and the whole local state
\* posted. The timer that clears pendingSave is armed once the request has
\* been answered, whatever the answer; a request that fails without an
\* answer throws out of the callback, and pendingSave stays set.
debouncedSave(outcomes) ==
    /\ timers.save
    /\ deliverable
    /\ pendingSave' = TRUE
    /\ \E outcome \in outcomes :
          /\ IF outcome = "ok"
             THEN /\ store' = saveTournament(store, localState)
                  /\ inbox' = Append(inbox, Val(store'))
                  /\ peer' = emitted(peer, Val(store'))
                  /\ writers' = queued(peer, writers, "client")
                  /\ reply' = answer(200, store')
             ELSE /\ UNCHANGED <<store, inbox, peer, writers>>
                  /\ reply' = IF outcome = "refused" THEN answer(500, NULL) ELSE reply
          /\ timers' = [save |-> FALSE,
                        clear |-> IF outcome = "failed" THEN timers.clear ELSE TRUE]
          /\ toast' = IF outcome = "failed" THEN Some("Failed to save changes") ELSE toast
    /\ UNCHANGED <<teams, matches, knockoutMatches, scheduleGenerated, currentEditMatch,
                   currentEditType, saving, rendered, saves, edited, formsDisabled,
                   serverDefault, request, edits, game, row, standingsTable, calls>>

\* The timer armed after a debounced save fires: pendingSave is cleared.
clearPendingSave ==
    /\ timers.clear
    /\ pendingSave' = FALSE
    /\ timers' = [timers EXCEPT !.clear = FALSE]
    /\ UNCHANGED <<teams, matches, knockoutMatches, scheduleGenerated, currentEditMatch,
                   currentEditType, saving, rendered, store, inbox, saves, edited,
                   formsDisabled, toast, peer, serverDefault, request, edits, reply, game, row,
                   standingsTable, calls, writers>>

\* showToast's timer: the toast is removed.
toastRemoved ==
    /\ toast # NULL
    /\ toast' = NULL
    /\ UNCHANGED <<teams, matches, knockoutMatches, scheduleGenerated, currentEditMatch,
                   currentEditType, saving, rendered, store, inbox, saves, edited,
                   setupVars, serverDefault, request, reply, game, row, standingsTable, calls,
                   writers>>

\* resetTournament(), confirmed: the DELETE request. The server deletes the
\* row and broadcasts its defaultState object; the local state changes only
\* by that broadcast.
resetTournament(outcomes) ==
    /\ currentEditMatch = NULL
    /\ deliverable
    /\ \E outcome \in outcomes :
          /\ IF outcome = "ok"
             THEN /\ store' = NULL
                  /\ inbox' = Append(inbox, serverDefault)
                  /\ peer' = emitted(peer, serverDefault)
                  /\ writers' = queued(peer, writers, "client")
                  /\ reply' = answer(200, Some(serverDefault))
             ELSE /\ UNCHANGED <<store, inbox, peer, writers>>
                  /\ reply' = IF outcome = "refused" THEN answer(500, NULL) ELSE reply
          /\ toast' = IF outcome = "failed" THEN Some("Failed to reset tournament")
                      ELSE Some("Tournament reset successfully")
    /\ saves' = 0
    /\ edited' = {}
    /\ UNCHANGED <<teams, matches, knockoutMatches, scheduleGenerated, currentEditMatch,
                   currentEditType, saving, rendered, formsDisabled, timers, pendingSave,
                   serverDefault, request, edits, game, row, standingsTable, calls>>

\* The second client's state, as the client's localState.
peerState ==
    [teams |-> Val(peer).teams,
     matches |-> Val(peer).matches,
     knockoutMatches |-> Val(peer).knockoutMatches,
     scheduleGenerated |-> Val(peer).scheduleGenerated]

\* The second client's 'input' listener on a team name.
peerEditTeamName(pool, index, value) ==
    /\ peer # NULL
    /\ ~Val(peer).formsDisabled
    /\ value # Val(peer).teams[pool][index].name
    /\ peer' = Some([Val(peer) EXCEPT !.teams[pool][index].name = value,
                                      !.timers.save = TRUE])
    /\ edits < MaxEdits
    /\ edits' = edits + 1
    /\ UNCHANGED <<teams, matches, knockoutMatches, scheduleGenerated, currentEditMatch,
                   currentEditType, saving, rendered, store, inbox, saves, edited,
                   formsDisabled, timers, pendingSave, toast, serverDefault, request, reply, game,
                   row, standingsTable, calls, writers>>

\* The second client's debounced save fires, and is handled.
peerDebouncedSave ==
    /\ peer # NULL
    /\ Val(peer).timers.save
    /\ deliverable
    /\ store' = saveTournament(store, peerState)
    /\ inbox' = Append(inbox, Val(store'))
    /\ peer' = Some([Val(peer) EXCEPT !.pendingSave = TRUE,
                                      !.timers = [save |-> FALSE, clear |-> TRUE],
                                      !.inbox = Append(@, Val(store'))])
    /\ reply' = answer(200, store')
    /\ writers' = Append(writers, "peer")
    /\ UNCHANGED <<teams, matches, knockoutMatches, scheduleGenerated, currentEditMatch,
                   currentEditType, saving, rendered, saves, edited, formsDisabled, timers,
                   pendingSave, toast, serverDefault, request, edits, game, row,
                   standingsTable, calls>>

\* The second client's timer that clears its pendingSave.
peerClearPendingSave ==
    /\ peer # NULL
    /\ Val(peer).timers.clear
    /\ peer' = Some([Val(peer) EXCEPT !.pendingSave = FALSE, !.timers.clear = FALSE])
    /\ UNCHANGED <<teams, matches, knockoutMatches, scheduleGenerated, currentEditMatch,
                   currentEditType, saving, rendered, store, inbox, saves, edited,
                   formsDisabled, timers, pendingSave, toast, serverDefault, request, edits, reply, game,
                   row, standingsTable, calls, writers>>

\* The second client's socket.on('tournament:updated').
peerTournamentUpdated ==
    /\ peer # NULL
    /\ Val(peer).inbox # <<>>
    /\ LET pr == Val(peer)
           newState == Head(pr.inbox)
       IN  peer' = Some([pr EXCEPT
                  !.teams = newState.teams,
                  !.matches = newState.matches,
                  !.scheduleGenerated = newState.scheduleGenerated,
                  !.knockoutMatches =
                      IF pr.pendingSave THEN newState.knockoutMatches
                      ELSE updateKnockoutTeams(newState.teams, newState.matches,
                                               newState.knockoutMatches,
                                               newState.scheduleGenerated),
                  !.formsDisabled =
                      IF pr.pendingSave THEN @ ELSE newState.scheduleGenerated,
                  !.inbox = Tail(@)])
    /\ writers' = Tail(writers)
    /\ UNCHANGED <<teams, matches, knockoutMatches, scheduleGenerated, currentEditMatch,
                   currentEditType, saving, rendered, store, inbox, saves, edited,
                   formsDisabled, timers, pendingSave, toast, serverDefault, request, edits, reply, game,
                   row, standingsTable, calls>>

\* Two clients that have loaded the stored tournament (fetchTournament, then
\* the forms rendered by loadPlayers): the setup has been filled in, possibly
\* with one player in two slots, and nothing is generated.
InitSetup ==
    /\ teams \in {filledTeams, duplicateTeams}
    /\ matches = <<>>
    /\ knockoutMatches = [semi1 |-> NULL, semi2 |-> NULL, final |-> NULL]
    /\ scheduleGenerated = FALSE
    /\ store = Some(localState)
    /\ inbox = <<>>
    /\ currentEditMatch = NULL
    /\ currentEditType = NULL
    /\ saving = FALSE
    /\ rendered = FALSE
    /\ saves = 0
    /\ edited = {}
    /\ formsDisabled = FALSE
    /\ timers = [save |-> FALSE, clear |-> FALSE]
    /\ pendingSave = FALSE
    /\ toast = NULL
    /\ peer = Some([teams |-> teams,
                    matches |-> matches,
                    knockoutMatches |-> knockoutMatches,
                    scheduleGenerated |-> FALSE,
                    formsDisabled |-> FALSE,
                    timers |-> [save |-> FALSE, clear |-> FALSE],
                    pendingSave |-> FALSE,
                    inbox |-> <<>>])
    /\ serverDefault = defaultState
    /\ reply = NULL
    /\ edits = 0
    /\ request = NULL
    /\ game = newGames(filledTeams.A[1], filledTeams.A[2])[1]
    /\ row = NULL
    /\ standingsTable = NULL
    /\ calls = <<>>
    /\ writers = <<>>

\* How a request ends: handled, answered with an error status, or not answered.
Requests == {"ok", "refused", "failed"}

\* The names typed into the first team's input of pool A, and the one typed
\* into the second client's first input of pool B.
TypedNames == {" ", "Aces"}

PeerTypedNames == {"Bees"}

\* The options chosen in the second dropdown of pool A's second team.
ChosenPlayers == {"", "A2y"}

NextSetup ==
    \/ \E value \in TypedNames : editTeamName("A", 1, value)
    \/ \E value \in ChosenPlayers : changePlayer("A", 2, 2, value)
    \/ debouncedSave(Requests)
    \/ clearPendingSave
    \/ toastRemoved
    \/ generateSchedule(Requests)
    \/ generateScheduleInvalid
    \/ resetTournament(Requests)
    \/ tournamentUpdated
    \/ \E value \in PeerTypedNames : peerEditTeamName("B", 1, value)
    \/ peerDebouncedSave
    \/ peerClearPendingSave
    \/ peerTournamentUpdated

SpecSetup == InitSetup /\ [][NextSetup]_vars

\* The eighteen player slots of a setup: pool, team, slot.
Slots == {"A", "B"} \X (1..3) \X (1..3)

\* A setup the generation must refuse: a team name or a player slot that is
\* blank once trimmed, or a player in two of the eighteen slots.
invalidSetup(tm) ==
    \/ \E pool \in {"A", "B"}, t \in 1..3 : tm[pool][t].name \in {"", " ", "  "}
    \/ \E sl \in Slots : tm[sl[1]][sl[2]].players[sl[3]] \in {"", " ", "  "}
    \/ \E sl1, sl2 \in Slots :
          /\ sl1 # sl2
          /\ tm[sl1[1]][sl1[2]].players[sl1[3]] = tm[sl2[1]][sl2[2]].players[sl2[3]]

\* What generateSchedule reports on a setup it refuses.
ValidationToasts ==
    {Some("Please enter names for all teams"), Some("Please select all players"),
     Some("Each player can only be on one team")}

\* A click on the generate button that ends with a report of its own: a
\* refusal, or the success.
generateReported ==
    /\ toast' # toast
    /\ toast' \in ValidationToasts \cup {Some("Schedule generated successfully!")}

\* C14: generateSchedule on a setup with a blank team name, a blank player
\* slot or a player in two slots reports a validation error, leaves teams,
\* matches, knockoutMatches and scheduleGenerated as they were, and sends no
\* write: the store, the broadcasts and the server's last answer are unchanged.
C14_InvalidSetupRefused ==
    [][(generateReported /\ invalidSetup(teams)) =>
          /\ toast' \in ValidationToasts
          /\ UNCHANGED <<teams, matches, knockoutMatches, scheduleGenerated>>
          /\ UNCHANGED <<store, inbox, peer, reply>>]_vars

\* A setup with one player in two slots has just been refused: nothing is
\* generated, locally or in the store.
C14_Witness ==
    /\ toast = Some("Each player can only be on one team")
    /\ invalidSetup(teams)
    /\ ~scheduleGenerated
    /\ matches = <<>>
    /\ store # NULL
    /\ ~Val(store).scheduleGenerated

\* The schedule generateSchedule builds from the local teams.
builtSchedule ==
    [teams |-> teams,
     matches |-> generatedMatches(teams),
     knockoutMatches |-> generatedBracket,
     scheduleGenerated |-> TRUE]

\* A click on the generate button that built the schedule and sent it: it
\* ends with the success toast or with saveTournament's failure toast, and,
\* unlike a debounced save, leaves the timers alone.
generateAttempted ==
    /\ toast' # toast
    /\ toast' \in {Some("Schedule generated successfully!"), Some("Failed to save changes")}
    /\ UNCHANGED timers

\* The write of the step was handled: the schedule is stored and broadcast.
generatePersisted ==
    /\ store' = Some(builtSchedule)
    /\ Len(inbox') > Len(inbox)

\* C15: schedule generation is all-or-nothing. When the write sent by
\* generateSchedule did not store the schedule, the local state afterwards
\* has scheduleGenerated false, no match and three null knockout entries;
\* when it did, the six matches, the bracket and the flag are present.
C15_AllOrNothing ==
    [][generateAttempted =>
          IF generatePersisted
          THEN /\ scheduleGenerated'
               /\ matches' = builtSchedule.matches
               /\ Len(matches') = 6
               /\ knockoutMatches' = builtSchedule.knockoutMatches
          ELSE /\ ~scheduleGenerated'
               /\ matches' = <<>>
               /\ knockoutMatches' = [semi1 |-> NULL, semi2 |-> NULL, final |-> NULL]]_vars

\* Every player slot of the six teams holds a player, and no player is held
\* by two slots.
playersAssigned(tm) ==
    /\ \A sl \in Slots : tm[sl[1]][sl[2]].players[sl[3]] \notin {"", " ", "  "}
    /\ \A sl1, sl2 \in Slots :
          sl1 # sl2 =>
             tm[sl1[1]][sl1[2]].players[sl1[3]] # tm[sl2[1]][sl2[2]].players[sl2[3]]

\* C16: wherever scheduleGenerated is true (the stored tournament, the
\* client's state, the second client's state), every player slot is filled
\* and no player is in more than one slot.
C16_GeneratedPlayersAssigned ==
    /\ (store # NULL /\ Val(store).scheduleGenerated) => playersAssigned(Val(store).teams)
    /\ scheduleGenerated => playersAssigned(teams)
    /\ (peer # NULL /\ Val(peer).scheduleGenerated) => playersAssigned(Val(peer).teams)

\* C17: once the stored tournament is generated, and until a reset deletes
\* it, no step changes a team's name or players in it, and none sets its
\* scheduleGenerated back to false.
C17_TeamsFrozen ==
    [][(store # NULL /\ Val(store).scheduleGenerated /\ store' # NULL) =>
          /\ Val(store').teams = Val(store).teams
          /\ Val(store').scheduleGenerated]_vars

\* ---------------------------------------------------------------------------
\* The server: the store (one row holding the state as JSON text) and the
\* routes, called directly.
\* ---------------------------------------------------------------------------

\* The members every object inherits; they are functions.
ObjectPrototype ==
    {"constructor", "toString", "toLocaleString", "valueOf", "hasOwnProperty",
     "isPrototypeOf", "propertyIsEnumerable"}

\* !object[key] is false: an own property that is not null, or an inherited
\* member.
found(object, key) ==
    IF key \in DOMAIN object THEN object[key] # NULL ELSE key \in ObjectPrototype

\* db.updateKnockoutMatch(matchKey, matchData): the state it saves, NULL when
\* it throws. An inherited member has no property of its own to spread.
updateKnockoutMatch(st, matchKey, matchData) ==
    LET state == getTournament(st)
        old == state.knockoutMatches
        new == IF matchKey \in DOMAIN old THEN spread(Val(old[matchKey]), matchData)
               ELSE matchData
    IN  IF ~found(old, matchKey) THEN NULL
        ELSE Some([state EXCEPT !.knockoutMatches =
                      [key \in (DOMAIN old) \cup {matchKey} |->
                          IF key = matchKey THEN Some(new) ELSE old[key]]])

\* At most this many requests are sent to the routes directly.
MaxRequests == 4

\* The request a route handles: its number, method, path and body.
received(method, path, key, body) ==
    Some([n |-> IF request = NULL THEN 1 ELSE Val(request).n + 1,
          method |-> method, path |-> path, key |-> key, body |-> body])

\* A route may be called.
callable ==
    /\ IF request = NULL THEN TRUE ELSE Val(request).n < MaxRequests
    /\ deliverable

\* The client's part while a route is called directly.
clientVars ==
    <<teams, matches, knockoutMatches, scheduleGenerated, currentEditMatch, currentEditType,
      saving, rendered, saves, edited, formsDisabled, timers, pendingSave, toast, edits,
      game, row, standingsTable, calls>>

\* GET /api/tournament
getTournamentRoute ==
    /\ callable
    /\ request' = received("GET", "tournament", "", NULL)
    /\ reply' = answer(200, Some(getTournament(store)))
    /\ UNCHANGED <<clientVars, store, inbox, peer, writers, serverDefault>>

\* POST /api/tournament
postTournament(body) ==
    /\ callable
    /\ request' = received("POST", "tournament", "", Some(body))
    /\ store' = saveTournament(store, body)
    /\ inbox' = Append(inbox, Val(store'))
    /\ peer' = emitted(peer, Val(store'))
    /\ writers' = queued(peer, writers, "route")
    /\ reply' = answer(200, store')
    /\ UNCHANGED <<clientVars, serverDefault>>

\* PUT /api/match/:id
putMatch(matchId, matchData) ==
    /\ callable
    /\ request' = received("PUT", "match", matchId, Some(matchData))
    /\ LET state == updateMatch(store, matchId, matchData)
       IN  IF state = NULL
           THEN /\ reply' = answer(500, NULL)
                /\ UNCHANGED <<store, inbox, peer, writers, serverDefault>>
           ELSE /\ store' = saveTournament(store, Val(state))
                /\ serverDefault' = IF store = NULL THEN Val(state) ELSE serverDefault
                /\ inbox' = Append(inbox, Val(store'))
                /\ peer' = emitted(peer, Val(store'))
                /\ writers' = queued(peer, writers, "route")
                /\ reply' = answer(200, store')
    /\ UNCHANGED clientVars

\* PUT /api/knockout/:key. Without a row, the state that is patched is the
\* defaultState object itself.
putKnockout(matchKey, matchData) ==
    /\ callable
    /\ request' = received("PUT", "knockout", matchKey, Some(matchData))
    /\ LET state == updateKnockoutMatch(store, matchKey, matchData)
       IN  IF state = NULL
           THEN /\ reply' = answer(500, NULL)
                /\ UNCHANGED <<store, inbox, peer, writers, serverDefault>>
           ELSE /\ store' = saveTournament(store, Val(state))
                /\ serverDefault' = IF store = NULL THEN Val(state) ELSE serverDefault
                /\ inbox' = Append(inbox, Val(store'))
                /\ peer' = emitted(peer, Val(store'))
                /\ writers' = queued(peer, writers, "route")
                /\ reply' = answer(200, store')
    /\ UNCHANGED clientVars

\* DELETE /api/tournament: db.resetTournament() deletes the row and returns
\* the defaultState object.
deleteTournament ==
    /\ callable
    /\ request' = received("DELETE", "tournament", "", NULL)
    /\ store' = NULL
    /\ inbox' = Append(inbox, serverDefault)
    /\ peer' = emitted(peer, serverDefault)
    /\ writers' = queued(peer, writers, "route")
    /\ reply' = answer(200, Some(serverDefault))
    /\ UNCHANGED <<clientVars, serverDefault>>

\* The server has started on an empty table; one client is connected.
InitStore ==
    /\ idleEngine
    /\ game = newGames(filledTeams.A[1], filledTeams.A[2])[1]
    /\ row = NULL
    /\ standingsTable = NULL

\* The setup saved before the generation, the generated schedule, and the
\* schedule with its first group match completed and one side of the first
\* semifinal resolved.
savedSetup == [defaultState EXCEPT !.teams = filledTeams]

savedSchedule ==
    [teams |-> filledTeams,
     matches |-> generatedMatches(filledTeams),
     knockoutMatches |-> generatedBracket,
     scheduleGenerated |-> TRUE]

playedMatch == scoreMatch(savedSchedule.matches[1], "group", <<won, lost, won>>)

playedSchedule ==
    [savedSchedule EXCEPT
        !.matches[1] = playedMatch,
        !.knockoutMatches.semi1 = Some([Val(@) EXCEPT !.team1 = Some(filledTeams.A[1])])]

Payloads == {savedSetup, savedSchedule, playedSchedule}

\* The ids of match patches: a generated match, and none.
PatchIds == {"A-A1-A2", "A-A1-A9"}

\* The keys of knockout patches: two of the bracket, one that no object
\* has, and one that every object inherits.
PatchKeys == {"semi1", "final", "third", "constructor"}

KnockoutPatches ==
    {[createKnockoutMatch("semi1", "A1", "B2") EXCEPT
         !.team1 = Some(filledTeams.A[1]), !.team2 = Some(filledTeams.B[2])]}

NextStore ==
    \/ getTournamentRoute
    \/ \E body \in Payloads : postTournament(body)
    \/ \E matchId \in PatchIds : putMatch(matchId, playedMatch)
    \/ \E matchKey \in PatchKeys, matchData \in KnockoutPatches : putKnockout(matchKey, matchData)
    \/ deleteTournament
    \/ tournamentUpdated

SpecStore == InitStore /\ [][NextStore]_vars

\* A route has handled a request in the step.
routed(method, path) ==
    /\ request' # request
    /\ Val(request').method = method
    /\ Val(request').path = path

\* C18: a reset leaves the store holding the default state (six teams with
\* empty player slots, no match, three null knockout entries, flag false)
\* and returns it, whatever was stored and whatever was done before: every
\* reset returns the same default.
C18_ResetRestoresDefault ==
    [][routed("DELETE", "tournament") =>
          /\ store' = NULL
          /\ serverDefault' = defaultState
          /\ reply' = answer(200, Some(defaultState))]_vars

\* The stored state has no match, or no knockout match, for the patch.
patchTarget(state, path, key) ==
    IF path = "match"
    THEN \E i \in 1..Len(state.matches) : state.matches[i].id = key
    ELSE /\ key \in DOMAIN state.knockoutMatches
         /\ state.knockoutMatches[key] # NULL

\* C19: a match patch whose id no stored match has, and a knockout patch
\* whose key has no knockout match in the stored state (absent, or null),
\* is answered with an error, leaves the stored state as it was and causes
\* no broadcast.
C19_UnknownPatchRejected ==
    [][\A path \in {"match", "knockout"} :
          (routed("PUT", path) /\ ~patchTarget(getTournament(store), path, Val(request').key)) =>
              /\ reply' = answer(500, NULL)
              /\ UNCHANGED <<store, serverDefault, inbox, peer>>]_vars

\* C20: a replace-all write leaves the store holding exactly its payload,
\* whatever was stored before, and answers with it; a get-all answers with
\* what is stored, and changes nothing.
C20_LastWriteWins ==
    [][/\ routed("POST", "tournament") =>
             /\ store' = Val(request').body
             /\ reply' = answer(200, Val(request').body)
       /\ routed("GET", "tournament") =>
             /\ store # NULL => reply' = answer(200, store)
             /\ UNCHANGED <<store, serverDefault>>]_vars

\* A get-all has just answered with the played schedule, the payload of the
\* last of several writes: its completed group match and its half-resolved
\* semifinal are as they were sent.
C20_Witness ==
    /\ request # NULL
    /\ Val(request).method = "GET"
    /\ Val(request).n >= 3
    /\ store = Some(playedSchedule)
    /\ reply = answer(200, Some(playedSchedule))
    /\ Val(Val(reply).body).matches[1].completed
    /\ Val(Val(Val(reply).body).knockoutMatches.semi1).team1 # NULL
    /\ Val(Val(Val(reply).body).knockoutMatches.semi1).team2 = NULL

\* ---------------------------------------------------------------------------
\* The server with a second client that connects while it runs.
\* ---------------------------------------------------------------------------

\* io.on('connection'): the new socket is sent what getTournament() returns.
\* The client behind it starts from the state it declares.
connection ==
    /\ peer = NULL
    /\ peer' = Some([teams |-> defaultState.teams,
                     matches |-> defaultState.matches,
                     knockoutMatches |-> defaultState.knockoutMatches,
                     scheduleGenerated |-> defaultState.scheduleGenerated,
                     formsDisabled |-> FALSE,
                     timers |-> [save |-> FALSE, clear |-> FALSE],
                     pendingSave |-> FALSE,
                     inbox |-> <<getTournament(store)>>])
    /\ writers' = <<"server">>
    /\ UNCHANGED <<clientVars, store, inbox, serverDefault, reply, request>>

NextServer ==
    \/ getTournamentRoute
    \/ \E body \in Payloads : postTournament(body)
    \/ \E matchId \in PatchIds : putMatch(matchId, playedMatch)
    \/ \E matchKey \in PatchKeys, matchData \in KnockoutPatches : putKnockout(matchKey, matchData)
    \/ deleteTournament
    \/ tournamentUpdated
    \/ connection
    \/ peerTournamentUpdated

SpecServer == InitStore /\ [][NextServer]_vars

\* What getTournament() returns after the step.
storedAfter == IF store' = NULL THEN serverDefault' ELSE Val(store')

\* A write route has handled a request in the step.
written ==
    /\ request' # request
    /\ Val(request').method \in {"POST", "PUT", "DELETE"}

\* C21: a write the server has done (replace-all, match patch, knockout
\* patch, reset) is followed by one broadcast of the resulting state to
\* every connected client; a write that fails broadcasts nothing and stores
\* nothing; a client that connects is sent the stored state.
C21_WritesBroadcast ==
    [][/\ (written /\ Val(reply').status = 200) =>
             /\ inbox' = Append(inbox, storedAfter)
             /\ peer' = IF peer = NULL THEN NULL
                        ELSE Some([Val(peer) EXCEPT !.inbox = Append(@, storedAfter)])
             /\ reply' = answer(200, Some(storedAfter))
       /\ (written /\ Val(reply').status # 200) =>
             UNCHANGED <<inbox, peer, store>>
       /\ (peer = NULL /\ peer' # NULL) =>
             Val(peer').inbox = <<IF store = NULL THEN serverDefault ELSE Val(store)>>]_vars

\* The second client connected to a stored schedule and was sent it; a match
\* patch has since been broadcast to both clients, and is what is stored.
C21_Witness ==
    /\ peer # NULL
    /\ Len(Val(peer).inbox) = 2
    /\ Val(peer).inbox[1] = savedSchedule
    /\ store # NULL
    /\ Val(peer).inbox[2] = Val(store)
    /\ inbox = <<Val(store)>>
    /\ request # NULL
    /\ Val(request).method = "PUT"
    /\ Val(request).path = "match"
    /\ Val(store).matches[1].completed

\* ---------------------------------------------------------------------------
\* One client editing the setup form: the timers fire, the broadcasts arrive.
\* ---------------------------------------------------------------------------

NextEcho ==
    \/ \E value \in TypedNames : editTeamName("A", 1, value)
    \/ \E value \in ChosenPlayers : changePlayer("A", 2, 2, value)
    \/ debouncedSave(Requests)
    \/ clearPendingSave
    \/ toastRemoved
    \/ tournamentUpdated

\* A timer that is armed fires, a broadcast that was sent is handled.
SpecEcho ==
    /\ InitEngine
    /\ [][NextEcho]_vars
    /\ WF_vars(debouncedSave(Requests))
    /\ WF_vars(clearPendingSave)
    /\ WF_vars(toastRemoved)
    /\ WF_vars(tournamentUpdated)

\* C22: whenever pendingSave is true it becomes false again: the flag set
\* when a debounced save is submitted is cleared a short delay after the
\* save has finished, and the rendering of incoming updates resumes.
C22_PendingSaveCleared == pendingSave ~> ~pendingSave

\* ---------------------------------------------------------------------------
\* Score entry while the server may answer a write with an error status.
\* ---------------------------------------------------------------------------

RefusedBounds ==
    [maxSaves |-> MaxSaves, maxEdited |-> MaxEdited, sheets |-> Sheets,
     outcomes |-> {"ok", "refused"}]

NextRefused ==
    \/ generateSchedule(Outcomes)
    \/ generateScheduleInvalid
    \/ tournamentUpdated
    \/ \E matchId \in GroupIds : openScoreModal(matchId, RefusedBounds)
    \/ \E matchKey \in {"semi1", "semi2", "final"} : openKnockoutScoreModal(matchKey, RefusedBounds)
    \/ closeModal
    \/ saveScore(RefusedBounds)
    \/ saveScoreDone

SpecRefused == InitEngine /\ [][NextRefused]_vars

\* The match holds what entry scored left in the edited object: the games
\* with their scores and winners, the counts, completed and the winner.
entered(match, scored) ==
    /\ match.games = scored.games
    /\ match.team1GamesWon = scored.team1GamesWon
    /\ match.team2GamesWon = scored.team2GamesWon
    /\ match.completed = scored.completed
    /\ match.winner = scored.winner

\* The match of the local state that the modal was opened on.
editedMatch(ms, ko) ==
    IF currentEditType = Some("group")
    THEN ms[findIndex(ms, Val(currentEditMatch).key)]
    ELSE Val(ko[Val(currentEditMatch).key])

matchesOf(ms, ko) ==
    {ms[i] : i \in 1..Len(ms)} \cup
    {Val(ko[key]) : key \in {k \in {"semi1", "semi2", "final"} : ko[k] # NULL}}

\* C24: a group or knockout match whose completed flag is false has no
\* winner, in the client's state and in the stored state; a completed match
\* that is scored again so that a game is undecided or blank loses its winner.
C24_WinnerOnlyWhenCompleted ==
    /\ \A m \in matchesOf(matches, knockoutMatches) : ~m.completed => m.winner = NULL
    /\ store # NULL =>
          \A m \in matchesOf(Val(store).matches, Val(store).knockoutMatches) :
              ~m.completed => m.winner = NULL

\* The identifiers of the two sides of a match, group or knockout.
sideIds(m) ==
    IF "team1Id" \in DOMAIN m THEN {m.team1Id, m.team2Id}
    ELSE {Val(t).id : t \in {u \in {m.team1, m.team2} : u # NULL}}

\* A completed match is decided: three games, each won by a side on its
\* scores, games-won counts adding up to three, and one of its sides as the
\* winner.
decidedMatch(m) ==
    /\ Len(m.games) = 3
    /\ \A g \in 1..3 : wonBy(m.games[g], 1) \/ wonBy(m.games[g], 2)
    /\ m.team1GamesWon + m.team2GamesWon = 3
    /\ m.winner # NULL
    /\ Val(m.winner) \in sideIds(m)

\* The points of a pool's standings add up to two per completed match.
poolPointsBalanced(tm, ms, pool) ==
    LET standings == calculateStandings(tm, ms, pool)
    IN  SumSeq([i \in 1..Len(standings) |-> standings[i].points]) =
            WinPoints * Cardinality({i \in 1..Len(ms) : ms[i].pool = pool /\ ms[i].completed})

\* C25: every completed match of the client's state, group or knockout, has
\* three decided games, games-won counts adding up to three and one of its
\* two sides as winner; the points of each pool add up to two per completed
\* match of the pool, so no draw points are awarded.
C25_NoCompletedDraw ==
    /\ \A m \in matchesOf(matches, knockoutMatches) : m.completed => decidedMatch(m)
    /\ scheduleGenerated => \A pool \in {"A", "B"} : poolPointsBalanced(teams, matches, pool)

\* A resolved side of the final is the current winner of the semifinal that
\* feeds it: the semifinal is completed with a winner and the side is the
\* team with that id.
finalSideCurrent(ko, semiKey, side) ==
    LET fin == Val(ko.final)
        slot == IF side = 1 THEN fin.team1 ELSE fin.team2
    IN  slot # NULL =>
            /\ ko[semiKey] # NULL
            /\ Val(ko[semiKey]).completed
            /\ Val(ko[semiKey]).winner # NULL
            /\ Val(slot).id = Val(Val(ko[semiKey]).winner)

\* C26: whenever a side of the final is resolved to a team, the semifinal
\* feeding it (semi1 for team1, semi2 for team2) is completed with a winner
\* at that moment and the side is that winner.
C26_FinalSidesCurrent ==
    knockoutMatches.final # NULL =>
        /\ finalSideCurrent(knockoutMatches, "semi1", 1)
        /\ finalSideCurrent(knockoutMatches, "semi2", 2)

\* The side of the bracket's final is resolved to a team.
finalSide(ko, side) ==
    /\ ko.final # NULL
    /\ (IF side = 1 THEN Val(ko.final).team1 ELSE Val(ko.final).team2) # NULL

\* The semifinal of the bracket is completed with a winner.
semifinalWon(ko, semiKey) ==
    /\ ko[semiKey] # NULL
    /\ Val(ko[semiKey]).completed
    /\ Val(ko[semiKey]).winner # NULL

\* The final of the bracket has games, or is completed.
finalPlayed(ko) ==
    /\ ko.final # NULL
    /\ (Len(Val(ko.final).games) > 0 \/ Val(ko.final).completed)

\* What a step may do to the final: a side of the final that the step
\* resolves comes with its semifinal completed with a winner, and the final
\* has games or is completed only with both sides resolved.
finalOrdered(before, after) ==
    /\ (~finalSide(before, 1) /\ finalSide(after, 1)) => semifinalWon(after, "semi1")
    /\ (~finalSide(before, 2) /\ finalSide(after, 2)) => semifinalWon(after, "semi2")
    /\ finalPlayed(after) => (finalSide(after, 1) /\ finalSide(after, 2))

\* C27: the final's sides start unresolved and a step resolves a side only
\* when the semifinal feeding it is completed with a winner, and the final
\* has games, scores or a completed flag only with both sides resolved; so
\* the final is played, and completed, only after both semifinals have been
\* completed with a winner.
C27_FinalAfterSemifinals ==
    [][finalOrdered(knockoutMatches, knockoutMatches')]_vars

\* The final has been scored to completion, with a champion.
C27_Witness ==
    /\ knockoutMatches.final # NULL
    /\ Val(knockoutMatches.final).completed
    /\ Val(knockoutMatches.final).winner # NULL
    /\ semifinalWon(knockoutMatches, "semi1")
    /\ semifinalWon(knockoutMatches, "semi2")

----------------------------------------------------------------------------
\* The asynchronous server and its database client

\* The store of this build is a database reached through a client
\* (createClient with TURSO_DATABASE_URL): every db.execute is awaited. A
\* statement takes effect at the database at one moment and the function
\* that awaits it goes on at a later one; the statements of other requests
\* may take effect, and other requests may go on, in between.

\* At most this many requests are taken by the server.
MaxCalls == 2

\* A request the server has taken: the route's method, the match id and the
\* body; the statement the handler awaits (pc), whether the statement has
\* taken effect (executed), the rows it returned (rows, NULL for none),
\* whether it failed (failed); the state to be written (state); the status
\* of the response, 0 while there is none, and the state broadcast (sent).
taken(method, key, body, pc, state) ==
    [method |-> method, key |-> key, body |-> body, pc |-> pc, executed |-> FALSE,
     rows |-> NULL, failed |-> FALSE, state |-> state, status |-> 0, sent |-> NULL]

\* The requests that can still be taken.
takeable == Len(calls) < MaxCalls

asyncVars ==
    <<teams, matches, knockoutMatches, scheduleGenerated, currentEditMatch, currentEditType,
      saving, rendered, saves, edited, setupVars, toast, serverDefault, reply, request, game,
      row, standingsTable, writers>>

\* POST /api/tournament: db.saveTournament(req.body) up to its first await,
\* the SELECT that looks for the row.
postTournamentTaken(body) ==
    /\ takeable
    /\ calls' = Append(calls, taken("POST", "", Some(body), "exists", Some(body)))
    /\ UNCHANGED <<asyncVars, store, inbox>>

\* PUT /api/match/:id: db.updateMatch(matchId, req.body) up to its first
\* await, the SELECT of getTournament.
putMatchTaken(matchId, matchData) ==
    /\ takeable
    /\ calls' = Append(calls, taken("PUT", matchId, Some(matchData), "read", NULL))
    /\ UNCHANGED <<asyncVars, store, inbox>>

\* DELETE /api/tournament: db.resetTournament() up to its await, the DELETE.
deleteTournamentTaken ==
    /\ takeable
    /\ calls' = Append(calls, taken("DELETE", "", NULL, "delete", NULL))
    /\ UNCHANGED <<asyncVars, store, inbox>>

\* The row after the statement a request awaits has taken effect: the
\* SELECTs leave it; UPDATE ... WHERE id = 1 writes it when there is one;
\* INSERT writes it when there is none; DELETE removes it.
executedRow(st, call) ==
    IF call.pc = "update" /\ st # NULL THEN saveTournament(st, Val(call.state))
    ELSE IF call.pc = "insert" /\ st = NULL THEN saveTournament(st, Val(call.state))
    ELSE IF call.pc = "delete" THEN NULL
    ELSE st

\* db.execute(...) of request c takes effect at the database: a SELECT
\* returns the row that is there, an INSERT fails on the primary key when
\* there is a row already.
execute(c) ==
    /\ c <= Len(calls)
    /\ calls[c].pc # "done"
    /\ ~calls[c].executed
    /\ store' = executedRow(store, calls[c])
    /\ calls' = [calls EXCEPT ![c].executed = TRUE,
                              ![c].rows = IF calls[c].pc \in {"read", "exists", "reread"}
                                          THEN store ELSE NULL,
                              ![c].failed = (calls[c].pc = "insert" /\ store # NULL)]
    /\ UNCHANGED <<asyncVars, inbox>>

\* The handler of a request after the statement it awaited has returned,
\* up to its next await or its response.
\*   read:   updateMatch patches the state it has read and saveTournament
\*           looks for the row, or updateMatch throws and the route
\*           answers 500;
\*   exists: saveTournament sends UPDATE when a row was returned, INSERT
\*           otherwise;
\*   update, insert: saveTournament returns getTournament(), whose SELECT
\*           is awaited; a failed INSERT throws and the route answers 500;
\*   reread: getTournament returns the parsed row, or defaultState, which
\*           the route broadcasts and answers;
\*   delete: resetTournament returns defaultState, which the route
\*           broadcasts and answers.
resumed(call, default) ==
    LET next(pc) == [call EXCEPT !.pc = pc, !.executed = FALSE, !.rows = NULL]
        thrown == [call EXCEPT !.pc = "done", !.status = 500]
        returned(state) == [call EXCEPT !.pc = "done", !.status = 200, !.sent = Some(state)]
        read == IF call.rows = NULL THEN default ELSE Val(call.rows)
    IN  CASE call.pc = "read" ->
                 IF findIndex(read.matches, call.key) = 0 THEN thrown
                 ELSE [next("exists") EXCEPT
                          !.state = Some([read EXCEPT
                                             !.matches[findIndex(read.matches, call.key)] =
                                                 spread(@, Val(call.body))])]
          [] call.pc = "exists" -> IF call.rows # NULL THEN next("update") ELSE next("insert")
          [] call.pc = "update" -> next("reread")
          [] call.pc = "insert" -> IF call.failed THEN thrown ELSE next("reread")
          [] call.pc = "reread" -> returned(read)
          [] call.pc = "delete" -> returned(default)

\* The await of request c returns; when the route has its state, it is
\* sent to every client: io.emit('tournament:updated', state).
resume(c) ==
    /\ c <= Len(calls)
    /\ calls[c].pc # "done"
    /\ calls[c].executed
    /\ calls' = [calls EXCEPT ![c] = resumed(calls[c], serverDefault)]
    /\ inbox' = IF calls'[c].sent # NULL THEN Append(inbox, Val(calls'[c].sent)) ELSE inbox
    /\ UNCHANGED <<asyncVars, store>>

\* The server has started; the table is empty or holds the generated
\* schedule that was saved while the server ran before.
InitAsync ==
    /\ teams = defaultTeams
    /\ matches = <<>>
    /\ knockoutMatches = [semi1 |-> NULL, semi2 |-> NULL, final |-> NULL]
    /\ scheduleGenerated = FALSE
    /\ idleModal
    /\ store \in {NULL, saveTournament(NULL, savedSchedule)}
    /\ inbox = <<>>
    /\ game = newGames(filledTeams.A[1], filledTeams.A[2])[1]
    /\ row = NULL
    /\ standingsTable = NULL

\* The match patches sent: the first match of pool A played, the second
\* match of pool A played, and a patch to a match that is not there.
secondPlayedMatch == scoreMatch(savedSchedule.matches[2], "group", <<lost, lost, lost>>)

AsyncPatches ==
    { <<"A-A1-A2", playedMatch>>, <<"A-A1-A3", secondPlayedMatch>>, <<"A-A1-A9", playedMatch>> }

AsyncPayloads == {savedSchedule}

NextAsync ==
    \/ \E body \in AsyncPayloads : postTournamentTaken(body)
    \/ \E patch \in AsyncPatches : putMatchTaken(patch[1], patch[2])
    \/ deleteTournamentTaken
    \/ \E c \in 1..MaxCalls : execute(c)
    \/ \E c \in 1..MaxCalls : resume(c)

SpecAsync == InitAsync /\ [][NextAsync]_vars

\* No request is in flight.
quiescent == \A c \in 1..Len(calls) : calls[c].pc = "done"

\* The stored match with that id.
storedMatch(id) ==
    LET ms == getTournament(store).matches IN ms[findIndex(ms, id)]

\* Two answered patches to different matches are both in the stored state.
bothPatched(a, b) ==
    (/\ calls[a].method = "PUT" /\ calls[a].status = 200
     /\ calls[b].method = "PUT" /\ calls[b].status = 200
     /\ calls[a].key # calls[b].key)
        => /\ findIndex(getTournament(store).matches, calls[a].key) # 0
           /\ findIndex(getTournament(store).matches, calls[b].key) # 0
           /\ storedMatch(calls[a].key) = parseMatch(stringifyMatch(Val(calls[a].body)))
           /\ storedMatch(calls[b].key) = parseMatch(stringifyMatch(Val(calls[b].body)))

\* C28: when two match patches to different matches X and Y have both been
\* answered with success, whatever the order in which their statements took
\* effect, the stored state holds both patched matches.
C28_BothPatchesStored ==
    (quiescent /\ Len(calls) = 2) => bothPatched(1, 2)

\* C29: once no request is in flight, the state of the most recent
\* tournament:updated broadcast is the state the store holds.
C29_LastBroadcastIsStored ==
    (quiescent /\ inbox # <<>>) => inbox[Len(inbox)] = getTournament(store)

\* The second client handles the broadcast at the head of its queue in the
\* step, and the broadcast was caused by a request that was not its own.
foreignBroadcastHandled(pr, ws, after) ==
    /\ pr # NULL
    /\ ws # <<>>
    /\ Val(pr).inbox # <<>>
    /\ after = Tail(ws)
    /\ Head(ws) # "peer"

\* The client has taken over the broadcast's fields and rendered it: the
\* team inputs are disabled exactly when the broadcast's schedule is
\* generated.
takenOverAndRendered(newState, after) ==
    /\ after.teams = newState.teams
    /\ after.matches = newState.matches
    /\ after.scheduleGenerated = newState.scheduleGenerated
    /\ DOMAIN after.knockoutMatches = DOMAIN newState.knockoutMatches
    /\ after.formsDisabled = newState.scheduleGenerated

\* C30: a tournament:updated broadcast that another client's write caused
\* replaces the receiving client's teams, matches, knockoutMatches and
\* scheduleGenerated and is rendered by it, so that its team inputs are
\* disabled as soon as another client's generated schedule arrives; only
\* the echo of the client's own save is not rendered.
C30_ForeignBroadcastRendered ==
    [][foreignBroadcastHandled(peer, writers, writers')
          => takenOverAndRendered(Head(Val(peer).inbox), Val(peer'))]_vars

====
